---- MODULE Spec2Model ----
(***************************************************************************)
(* Route Optimization System (SwiftLogistics ROS).                         *)
(*                                                                         *)
(* The module models                                                       *)
(*   - the tour solver of app/services/optimization.py (nearest neighbour  *)
(*     construction, 2-opt improvement, closed tour distance);             *)
(*   - the heuristic fleet allocator of the same file (optimize_routes,    *)
(*     optimize_multi_vehicle_routes, optimize_single_vehicle_route);      *)
(*   - the pipeline of app/services/ros_pipeline.py (geocoding with its    *)
(*     cache, the VROOM job encoding, the VROOM call, the decoding of its  *)
(*     solution, the fallback) and the endpoint that wraps it              *)
(*     (app/api/v1/endpoints/ros_routes.py);                               *)
(*   - the GeocodingService called on its own, the while loop of           *)
(*     two_opt_improvement pass by pass, and several requests resolving    *)
(*     addresses against the one GeocodingService of the process.          *)
(*                                                                         *)
(* Python lists are sequences (position p of a Python list is position     *)
(* p + 1 here); node indices of a distance matrix keep their Python values *)
(* 0 .. n-1.  Floats are integers: distances, weights and volumes are      *)
(* only added and compared.                                                *)
(***************************************************************************)
EXTENDS Integers, Sequences, FiniteSets, TLC

VARIABLES
    \* ---- tour solver (SpecTour)
    tourPc,           \* position in nearest neighbour -> 2-opt -> distance
    distance_matrix,  \* the matrix handed to the solver
    nn_tour,          \* result of nearest_neighbor_tsp
    tour,             \* result of two_opt_improvement
    tour_distance,    \* calculate_tour_distance of the final tour
    tour_error,       \* exception raised by the solver, "none" if none
    \* ---- one optimization call (SpecAlloc, Spec)
    pc,               \* position of the call
    vehicles,         \* the call's vehicles (rows of the vehicles table)
    addresses,        \* the call's addresses (rows of the addresses table)
    request,          \* the OptimizationRequest handed to optimize_routes
    vehicle_blocks,   \* vehicle_addresses of each vehicle the allocator served
    result,           \* what the call returned or raised
    \* ---- the pipeline around it (Spec)
    geo_idx,          \* addresses batch_geocode_addresses has gone through
    coordinates,      \* its results dict: address id -> coordinate
    cache,            \* GeocodingService.cache: cache key -> coordinate
    lookup_log,       \* the addresses the pipeline's geocoder was asked for
    vroom_problem,    \* what create_vroom_job returned
    vroom_solution,   \* what solve_optimization returned
    engine_calls,     \* the engines invoked by the call, in order
    response,         \* what the endpoint answered
    \* ---- a GeocodingService called on its own (SpecGeo)
    geo_calls,        \* the geocode_address calls made on it, in order
    \* ---- two_opt_improvement called on its own (SpecTwoOpt)
    passPc,           \* position of the call: in its while loop or returned
    pass_matrix,      \* its distance_matrix argument
    pass_tour,        \* its local tour, the tour the next pass starts from
    best_tour,        \* its local best_tour
    passes,           \* passes of the while loop made so far
    \* ---- requests served at once by one process (SpecShared)
    tasks,            \* the request coroutines: position, addresses, results
    on_loop           \* the coroutines inside batch_geocode_addresses

tourVars == <<tourPc, distance_matrix, nn_tour, tour, tour_distance, tour_error>>

callVars == <<pc, vehicles, addresses, request, vehicle_blocks, result>>

geoVars == <<geo_calls>>

passVars == <<passPc, pass_matrix, pass_tour, best_tour, passes>>

loopVars == <<tasks, on_loop>>

pipeVars == <<geo_idx, coordinates, cache, lookup_log, vroom_problem,
              vroom_solution, engine_calls, response>>

vars == <<tourPc, distance_matrix, nn_tour, tour, tour_distance, tour_error,
          pc, vehicles, addresses, request, vehicle_blocks, result,
          geo_idx, coordinates, cache, lookup_log, vroom_problem,
          vroom_solution, engine_calls, response, geo_calls,
          passPc, pass_matrix, pass_tour, best_tour, passes, tasks, on_loop>>

\* ------------------------------------------------------------------ bounds
\* Largest distance matrix of the tour solver's specification (depot included).
MaxNodes == 4

\* Distances between two distinct nodes (km, whole numbers).
Dists == {1, 2, 3}

\* Largest fleet and largest stop list of one heuristic allocation.
MaxVehicles == 3

MaxStops == 5

\* Largest fleet and largest stop list of one call of the pipeline.
MaxCallVehicles == 2

MaxCallStops == 2

\* Calls of geocode_address made on one GeocodingService (SpecGeo).
MaxGeoCalls == 3

\* Largest distance matrix handed to two_opt_improvement on its own
\* (SpecTwoOpt), and the distances between two of its nodes.
MaxPassNodes == 5

PassDists == {0, 1}

\* Requests served at once by one process, and the longest address list of
\* one of them (SpecShared).
MaxTasks == 2

MaxTaskStops == 2

\* ------------------------------------------------------ program constants
\* calculate_travel_time's default avg_speed_kmh.
AvgSpeedKmh == 50

\* current_time = 8 * 60: routes start at 8:00 AM (minutes since midnight).
DayStartMinutes == 480

\* service_time = Column(Integer, default=15)
DefaultServiceTime == 15

\* ------------------------------------------------------------- generalities
Min(a, b) == IF a < b THEN a ELSE b

Max(a, b) == IF a < b THEN b ELSE a

RECURSIVE SumSeq(_)
SumSeq(s) == IF s = <<>> THEN 0 ELSE Head(s) + SumSeq(Tail(s))

Range(s) == {s[p] : p \in DOMAIN s}

\* The primary keys of a list of rows.
Ids(rows) == {rows[k].id : k \in 1 .. Len(rows)}

\* Python's s[start:end] for 0 <= start: the bounds are clamped to the length.
Slice(s, start, end) == SubSeq(s, Min(start, Len(s)) + 1, Min(end, Len(s)))

\* ------------------------------------------------------------- tour solver
\* distance_matrix.shape[0]
Shape(m) == Cardinality(DOMAIN m)

\* The symmetric matrices with a zero diagonal over n nodes, as
\* create_distance_matrix builds them from a symmetric distance.
NodePairs(n) == {pr \in (0 .. n - 1) \X (0 .. n - 1) : pr[1] < pr[2]}

MatrixOf(n, d) ==
    [i \in 0 .. n - 1 |->
        [j \in 0 .. n - 1 |->
            IF i = j THEN 0 ELSE d[<<Min(i, j), Max(i, j)>>]]]

Matrices(n) == {MatrixOf(n, d) : d \in [NodePairs(n) -> Dists]}

\* A minimum that keeps the last of several nearest nodes.
MinUnvisitedLastTie(m, unvisited, current) ==
    CHOOSE x \in unvisited :
        \A y \in unvisited :
            \/ m[current][x] < m[current][y]
            \/ m[current][x] = m[current][y] /\ x >= y

\* min(unvisited, key=lambda x: distance_matrix[current][x]): the first
\* minimal element in the set's iteration order, which for a set of small
\* ints is ascending.
MinUnvisited(m, unvisited, current) ==
    CHOOSE x \in unvisited :
        \A y \in unvisited :
            \/ m[current][x] < m[current][y]
            \/ m[current][x] = m[current][y] /\ x <= y

RECURSIVE NearestNeighborLoop(_, _, _, _)
NearestNeighborLoop(m, unvisited, current, t) ==
    IF unvisited = {} THEN t
    ELSE LET nearest == MinUnvisited(m, unvisited, current)
         IN  NearestNeighborLoop(m, unvisited \ {nearest}, nearest,
                                 Append(t, nearest))

\* A nearest-neighbour construction that leaves the start node among the
\* unvisited ones.
NearestNeighborKeepsStart(m, start_node) ==
    LET unvisited == 0 .. Shape(m) - 1
    IN  IF start_node \notin unvisited
        THEN [raised |-> "KeyError", tour |-> <<>>]
        ELSE [raised |-> "none",
              tour |-> NearestNeighborLoop(m, unvisited, start_node,
                                           <<start_node>>)]

\* nearest_neighbor_tsp: unvisited.remove(start_node) raises KeyError when
\* start_node is not a node of the matrix (an empty matrix has none).
nearest_neighbor_tsp(m, start_node) ==
    LET unvisited == 0 .. Shape(m) - 1
    IN  IF start_node \notin unvisited
        THEN [raised |-> "KeyError", tour |-> <<>>]
        ELSE [raised |-> "none",
              tour |-> NearestNeighborLoop(m, unvisited \ {start_node},
                                           start_node, <<start_node>>)]

\* calculate_tour_distance: the consecutive edges plus the edge from the last
\* node back to the first (t is not empty).
calculate_tour_distance(t, m) ==
    SumSeq([p \in 1 .. Len(t) - 1 |-> m[t[p]][t[p + 1]]])
        + m[t[Len(t)]][t[1]]

\* Mutant of ReverseSlice: new_tour[i:j] = tour[i+1:j+1][::-1].
ReverseSliceShifted(t, i, j) ==
    [p \in 1 .. Len(t) |->
        IF i + 1 <= p /\ p <= j THEN t[i + 2 + j - p] ELSE t[p]]

\* new_tour[i:j] = tour[i:j][::-1]: Python positions i .. j-1, reversed.
ReverseSlice(t, i, j) ==
    [p \in 1 .. Len(t) |->
        IF i + 1 <= p /\ p <= j THEN t[i + 1 + j - p] ELSE t[p]]

\* Mutant of Improves: the comparison the wrong way round.
ImprovesFlipped(new_tour, best, m) ==
    calculate_tour_distance(new_tour, m) > calculate_tour_distance(best, m)

\* A comparison that also accepts a candidate of equal distance.
ImprovesOrEqual(new_tour, best, m) ==
    calculate_tour_distance(new_tour, m) <= calculate_tour_distance(best, m)

\* if calculate_tour_distance(new_tour) < calculate_tour_distance(best_tour)
Improves(new_tour, best, m) ==
    calculate_tour_distance(new_tour, m) < calculate_tour_distance(best, m)

\* One pass of the two for loops, from the pair (i, j) on: every candidate is
\* built from the pass's tour and compared with the best tour so far.
RECURSIVE TwoOptScan(_, _, _, _, _, _)
TwoOptScan(t, best, improved, i, j, m) ==
    IF i > Len(t) - 3 THEN [best_tour |-> best, improved |-> improved]
    ELSE IF j > Len(t) - 1 THEN TwoOptScan(t, best, improved, i + 1, i + 2, m)
    ELSE IF j - i = 1 THEN TwoOptScan(t, best, improved, i, j + 1, m)
    ELSE LET new_tour == ReverseSlice(t, i, j)
         IN  IF Improves(new_tour, best, m)
             THEN TwoOptScan(t, new_tour, TRUE, i, j + 1, m)
             ELSE TwoOptScan(t, best, improved, i, j + 1, m)

\* while improved: one pass, then tour = best_tour[:]
RECURSIVE TwoOptWhile(_, _, _)
TwoOptWhile(t, best, m) ==
    LET r == TwoOptScan(t, best, FALSE, 1, 2, m)
    IN  IF r.improved THEN TwoOptWhile(r.best_tour, r.best_tour, m)
        ELSE r.best_tour

two_opt_improvement(t, m) == TwoOptWhile(t, t, m)

\* ------------------------------------------------------- heuristic allocator
\* Python's None in an Optional[float] column.
NoneValue == -1

\* "if x" on an Optional[float]: None and 0.0 are both false.
Truthy(x) == x # NoneValue /\ x # 0

Abs(x) == IF x < 0 THEN 0 - x ELSE x

\* The coordinate a failed lookup yields.
Sentinel == <<0, 0>>

\* Nominatim: where a formatted address (its components in order) lies.
WorldCoord(full_address) ==
    <<IF full_address[1] = "s2" THEN 4 ELSE 2,
      IF full_address[Len(full_address)] = "US" THEN 6 ELSE 2>>

\* full_address = f"{street_address}, {city}, {state}, {postal_code}, {country}"
OptFullAddress(address) ==
    <<address.street_address, address.city, address.state,
      address.postal_code, address.country>>

\* RouteOptimizationService.geocode_address: the coordinate the row carries
\* or, without one, what the geocoder answers for this row in this call
\* (lookup[id]: TRUE when the address is found; when nothing is found or the
\* geocoder raises, which the except clause absorbs, the default 0.0, 0.0).
opt_geocode_address(address, lookup) ==
    IF Truthy(address.latitude) /\ Truthy(address.longitude)
    THEN <<address.latitude, address.longitude>>
    ELSE IF lookup[address.id] THEN WorldCoord(OptFullAddress(address))
    ELSE Sentinel

\* calculate_distance: geodesic(coord1, coord2).kilometers, on a grid of
\* whole degrees taken as 10 km per degree along each axis.
calculate_distance(coord1, coord2) ==
    10 * (Abs(coord1[1] - coord2[1]) + Abs(coord1[2] - coord2[2]))

\* calculate_travel_time: int((distance_km / avg_speed_kmh) * 60)
calculate_travel_time(distance_km) == (distance_km * 60) \div AvgSpeedKmh

\* create_distance_matrix: node 0 is the depot, node k the k-th address.
create_distance_matrix(addrs, depot_location, lookup) ==
    LET coords == [k \in 0 .. Len(addrs) |->
                      IF k = 0 THEN depot_location
                      ELSE opt_geocode_address(addrs[k], lookup)]
    IN  [i \in 0 .. Len(addrs) |->
            [j \in 0 .. Len(addrs) |->
                IF i # j THEN calculate_distance(coords[i], coords[j]) ELSE 0]]

\* The for loop of optimize_single_vehicle_route over enumerate(tour[1:], 1),
\* from index i on; current_time is the clock before stop i.
\* A numbering of the stops by the index of enumerate(tour[1:]) without its
\* start value.
StopSequenceZeroBased(i) == i - 1

\* for i, stop_idx in enumerate(tour[1:], 1): ... 'sequence': i
StopSequence(i) == i

RECURSIVE RouteStops(_, _, _, _, _)
RouteStops(t, m, addrs, i, current_time) ==
    IF i > Len(t) - 1 THEN <<>>
    ELSE LET address == addrs[t[i + 1]]
             distance_from_previous == m[t[i]][t[i + 1]]
             time_from_previous == calculate_travel_time(distance_from_previous)
             arrival == current_time + time_from_previous + address.service_time
         IN  <<[address_id |-> address.id,
                sequence |-> StopSequence(i),
                estimated_arrival |-> <<arrival \div 60, arrival % 60>>,
                distance_from_previous |-> distance_from_previous,
                time_from_previous |-> time_from_previous]>>
             \o RouteStops(t, m, addrs, i + 1, arrival)

NoError == [kind |-> "none", vehicle_id |-> 0]

EmptyRoute(vehicle) ==
    [vehicle_id |-> vehicle.id, stops |-> <<>>, total_distance |-> 0,
     total_time |-> 0, total_cost |-> 0]

\* Mutant of CapacityExceeded: the volume is not checked.
CapacityExceededWeightOnly(vehicle, addrs) ==
    SumSeq([k \in 1 .. Len(addrs) |-> addrs[k].delivery_weight])
        > vehicle.capacity

\* total_weight > vehicle.capacity or total_volume > vehicle.capacity
CapacityExceeded(vehicle, addrs) ==
    \/ SumSeq([k \in 1 .. Len(addrs) |-> addrs[k].delivery_weight])
           > vehicle.capacity
    \/ SumSeq([k \in 1 .. Len(addrs) |-> addrs[k].delivery_volume])
           > vehicle.capacity

\* A route whose total distance leaves out the leg back to the depot.
RouteOfStopsNoReturnLeg(vehicle, addrs, m, t, stops) ==
    LET total_distance ==
            SumSeq([k \in 1 .. Len(stops) |-> stops[k].distance_from_previous])
    IN  [vehicle_id |-> vehicle.id,
         stops |-> stops,
         total_distance |-> total_distance,
         total_time |->
             SumSeq([k \in 1 .. Len(stops) |->
                        stops[k].time_from_previous
                            + addrs[t[k + 1]].service_time]),
         total_cost |-> total_distance * vehicle.cost_per_km]

\* optimize_single_vehicle_route, lines 134-172: the route of tour t over
\* matrix m, whose stops are the route stops of the loop.
RouteOfStops(vehicle, addrs, m, t, stops) ==
    LET back == m[t[Len(t)]][t[1]]
        total_distance ==
            SumSeq([k \in 1 .. Len(stops) |-> stops[k].distance_from_previous])
                + (IF stops # <<>> THEN back ELSE 0)
        total_time ==
            SumSeq([k \in 1 .. Len(stops) |->
                       stops[k].time_from_previous
                           + addrs[t[k + 1]].service_time])
                + (IF stops # <<>> THEN calculate_travel_time(back) ELSE 0)
    IN  [vehicle_id |-> vehicle.id,
         stops |-> stops,
         total_distance |-> total_distance,
         total_time |-> total_time,
         total_cost |-> total_distance * vehicle.cost_per_km]

RouteOfTour(vehicle, addrs, m, t) ==
    RouteOfStops(vehicle, addrs, m, t,
                 RouteStops(t, m, addrs, 1, DayStartMinutes))

\* Lines 129-131: the nearest neighbour tour of the matrix, improved.
SolveTsp(m) == two_opt_improvement(nearest_neighbor_tsp(m, 0).tour, m)

RouteOfMatrix(vehicle, addrs, m) == RouteOfTour(vehicle, addrs, m, SolveTsp(m))

\* optimize_single_vehicle_route, past the capacity check: the depot is
\* (0.0, 0.0).
SingleVehicleRoute(vehicle, addrs, lookup) ==
    RouteOfMatrix(vehicle, addrs,
                  create_distance_matrix(addrs, Sentinel, lookup))

\* optimize_single_vehicle_route: a route, or the ValueError it raises.
optimize_single_vehicle_route(vehicle, addrs, lookup) ==
    IF addrs = <<>>
    THEN [raised |-> FALSE, error |-> NoError, route |-> EmptyRoute(vehicle)]
    ELSE IF CapacityExceeded(vehicle, addrs)
    THEN [raised |-> TRUE,
          error |-> [kind |-> "capacity_exceeded", vehicle_id |-> vehicle.id],
          route |-> EmptyRoute(vehicle)]
    ELSE [raised |-> FALSE, error |-> NoError,
          route |-> SingleVehicleRoute(vehicle, addrs, lookup)]

\* Mutant of BlockEnd: "if i <= remainder".
BlockEndOffByOne(i, start_idx, n_addresses, n_vehicles) ==
    start_idx + (n_addresses \div n_vehicles)
        + (IF i <= n_addresses % n_vehicles THEN 1 ELSE 0)

\* end_idx of the vehicle at Python index i, whose block starts at start_idx.
BlockEnd(i, start_idx, n_addresses, n_vehicles) ==
    start_idx + (n_addresses \div n_vehicles)
        + (IF i < n_addresses % n_vehicles THEN 1 ELSE 0)

\* The for loop of optimize_multi_vehicle_routes from the vehicle at Python
\* index i on.  blocks collects vehicle_addresses of every vehicle reached.
RECURSIVE MultiVehicleLoop(_, _, _, _, _, _, _)
RECURSIVE MultiVehicleStep(_, _, _, _, _, _, _, _)
RECURSIVE MultiVehicleRouted(_, _, _, _, _, _, _, _)
MultiVehicleLoop(vs, addrs, lookup, i, start_idx, routes, blocks) ==
    IF i >= Len(vs)
    THEN [raised |-> FALSE, error |-> NoError, routes |-> routes,
          blocks |-> blocks]
    ELSE MultiVehicleStep(vs, addrs, lookup, i, routes, blocks,
                          BlockEnd(i, start_idx, Len(addrs), Len(vs)),
                          Slice(addrs, start_idx,
                                BlockEnd(i, start_idx, Len(addrs), Len(vs))))

\* The body of the loop, for the block vehicle_addresses ending at end_idx.
MultiVehicleStep(vs, addrs, lookup, i, routes, blocks, end_idx, vehicle_addresses) ==
    IF vehicle_addresses = <<>>
    THEN MultiVehicleLoop(vs, addrs, lookup, i + 1, end_idx, routes,
                          Append(blocks, vehicle_addresses))
    ELSE MultiVehicleRouted(vs, addrs, lookup, i, routes,
                            Append(blocks, vehicle_addresses), end_idx,
                            optimize_single_vehicle_route(
                                vs[i + 1], vehicle_addresses, lookup))

\* if vehicle_addresses: route = ...; routes.append(route); the exception of
\* optimize_single_vehicle_route ends the loop.
MultiVehicleRouted(vs, addrs, lookup, i, routes, blocks, end_idx, r) ==
    IF r.raised
    THEN [raised |-> TRUE, error |-> r.error, routes |-> <<>>,
          blocks |-> blocks]
    ELSE MultiVehicleLoop(vs, addrs, lookup, i + 1, end_idx,
                          Append(routes, r.route), blocks)

optimize_multi_vehicle_routes(vs, addrs, lookup) ==
    IF vs = <<>> \/ addrs = <<>>
    THEN [raised |-> FALSE, error |-> NoError, routes |-> <<>>,
          blocks |-> <<>>]
    ELSE MultiVehicleLoop(vs, addrs, lookup, 0, 0, <<>>, <<>>)

RECURSIVE MaxSeq(_)
MaxSeq(s) == IF s = <<>> THEN 0 ELSE Max(Head(s), MaxSeq(Tail(s)))

Raise(kind, vehicle_id, blocks) ==
    [raised |-> TRUE,
     error |-> [kind |-> kind, vehicle_id |-> vehicle_id],
     value |-> [routes |-> <<>>, total_distance |-> 0, total_time |-> 0,
                total_cost |-> 0, optimization_engine |-> "absent",
                geocoded_addresses |-> NoneValue],
     blocks |-> blocks]

\* The dict optimize_routes returns: it has no optimization_engine and no
\* geocoded_addresses key.
HeuristicOutcome(routes) ==
    [routes |-> routes,
     total_distance |->
         SumSeq([k \in 1 .. Len(routes) |-> routes[k].total_distance]),
     total_time |->
         MaxSeq([k \in 1 .. Len(routes) |-> routes[k].total_time]),
     total_cost |->
         SumSeq([k \in 1 .. Len(routes) |-> routes[k].total_cost]),
     optimization_engine |-> "absent",
     geocoded_addresses |-> NoneValue]

\* Lines 216-218: route_data = optimize_single_vehicle_route(...);
\* routes = [route_data]
OneVehicleRoutes(one, selected_addresses) ==
    [raised |-> one.raised, error |-> one.error,
     routes |-> IF one.raised THEN <<>> ELSE <<one.route>>,
     blocks |-> <<selected_addresses>>]

\* Lines 222-235: the totals of the routes; an exception of the optimization
\* leaves optimize_routes.
OutcomeOfRoutes(r) ==
    IF r.raised THEN Raise(r.error.kind, r.error.vehicle_id, r.blocks)
    ELSE [raised |-> FALSE, error |-> NoError,
          value |-> HeuristicOutcome(r.routes), blocks |-> r.blocks]

OptimizeSelected(selected_vehicles, selected_addresses, lookup) ==
    IF selected_vehicles = <<>> THEN Raise("no_valid_vehicles", 0, <<>>)
    ELSE IF selected_addresses = <<>>
    THEN Raise("no_valid_addresses", 0, <<>>)
    ELSE IF Len(selected_vehicles) = 1
    THEN OutcomeOfRoutes(
             OneVehicleRoutes(
                 optimize_single_vehicle_route(selected_vehicles[1],
                                               selected_addresses, lookup),
                 selected_addresses))
    ELSE OutcomeOfRoutes(
             optimize_multi_vehicle_routes(selected_vehicles,
                                           selected_addresses, lookup))

\* optimize_routes(request, vehicles, addresses)
optimize_routes(req, vs, addrs, lookup) ==
    OptimizeSelected(SelectSeq(vs, LAMBDA v : v.id \in req.vehicle_ids),
                     SelectSeq(addrs, LAMBDA a : a.id \in req.address_ids),
                     lookup)

\* ------------------------------------------------------------- pipeline
\* Python's d[k] = v on a dict held as a function.
DictPut(d, k, v) == [x \in DOMAIN d \cup {k} |-> IF x = k THEN v ELSE d[x]]

\* cache_key = f"{street_address}_{city}_{state}_{postal_code}"
CacheKey(address) ==
    <<address.street_address, address.city, address.state,
      address.postal_code>>

\* _format_address: ", ".join(filter(None, components))
FormatAddress(address) ==
    SelectSeq(<<address.street_address, address.city, address.state,
                address.postal_code, address.country>>,
              LAMBDA c : c # "")

\* What the pipeline's geocoder can do with one request: find the address,
\* find nothing, or raise GeocoderTimedOut or GeocoderServiceError.
LookupOutcomes == {"found", "no_result", "timed_out", "service_error"}

\* The outcomes in which geocoder.geocode raises.
LookupRaises(outcome) == outcome \in {"timed_out", "service_error"}

\* An except clause that names GeocoderTimedOut alone.
ExceptCatchesTimedOutOnly(outcome) == outcome = "timed_out"

\* except (GeocoderTimedOut, GeocoderServiceError)
ExceptCatches(outcome) == outcome \in {"timed_out", "service_error"}

\* GeocodingService.geocode_address: the coordinate returned, the cache
\* afterwards and the address the geocoder was asked for, if it was; raised
\* when an exception of the geocoder leaves the method.
geocode_address(address, the_cache, outcome) ==
    IF Truthy(address.latitude) /\ Truthy(address.longitude)
    THEN [coords |-> <<address.latitude, address.longitude>>,
          cache |-> the_cache, asked |-> <<>>, raised |-> FALSE]
    ELSE IF CacheKey(address) \in DOMAIN the_cache
    THEN [coords |-> the_cache[CacheKey(address)],
          cache |-> the_cache, asked |-> <<>>, raised |-> FALSE]
    ELSE IF outcome = "found"
    THEN [coords |-> WorldCoord(FormatAddress(address)),
          cache |-> DictPut(the_cache, CacheKey(address),
                            WorldCoord(FormatAddress(address))),
          asked |-> <<FormatAddress(address)>>, raised |-> FALSE]
    ELSE [coords |-> Sentinel, cache |-> the_cache,
          asked |-> <<FormatAddress(address)>>,
          raised |-> LookupRaises(outcome) /\ ~ExceptCatches(outcome)]

\* A filter that takes an empty list of valid addresses for a usable one.
NoValidAddressesNever(valid_addresses) == FALSE

\* if not valid_addresses
NoValidAddresses(valid_addresses) == valid_addresses = <<>>

\* valid_addresses = [addr for addr in addresses
\*                    if coordinates[addr.id] != (0.0, 0.0)]
ValidAddresses(addrs, coords) ==
    SelectSeq(addrs, LAMBDA a : coords[a.id] # Sentinel)

\* valid_coordinates, in the order of the dict: that of the addresses.
ValidCoordinates(coords) ==
    [id \in {x \in DOMAIN coords : coords[x] # Sentinel} |-> coords[id]]

\* _time_to_minutes; the unpacking of time_str.split(':') into hours and
\* minutes raises ValueError unless there are exactly two parts.
TimeParses(time_str) == Len(time_str) = 2

time_to_minutes(time_str) == time_str[1] * 60 + time_str[2]

\* if address.time_window_start and address.time_window_end
HasTimeWindow(address) ==
    address.time_window_start # <<>> /\ address.time_window_end # <<>>

VroomVehicle(vehicle, depot_coords) ==
    [id |-> vehicle.id,
     start |-> depot_coords,
     end |-> depot_coords,
     capacity |-> <<vehicle.capacity>>,
     skills |-> <<1>>,
     time_window |-> <<480, 1020>>]

\* A job numbered by the position of its address in the call instead of by
\* the address's id.
VroomJobRenumbered(address, coords) ==
    [id |-> address.id - 10,
     location |-> <<coords[2], coords[1]>>,
     delivery |-> <<address.delivery_weight>>,
     service |-> address.service_time * 60,
     skills |-> <<1>>,
     priority |-> address.priority,
     time_windows |-> <<>>]

VroomJob(address, coords) ==
    [id |-> address.id,
     location |-> <<coords[2], coords[1]>>,
     delivery |-> <<address.delivery_weight>>,
     service |-> address.service_time * 60,
     skills |-> <<1>>,
     priority |-> address.priority,
     time_windows |->
         IF HasTimeWindow(address)
         THEN <<<<time_to_minutes(address.time_window_start) * 60,
                  time_to_minutes(address.time_window_end) * 60>>>>
         ELSE <<>>]

NoProblem == [raised |-> FALSE, vehicles |-> <<>>, jobs |-> <<>>]

\* create_vroom_job: the problem, or the ValueError of a time window that
\* does not parse.  The depot of every vehicle is list(coordinates.values())[0],
\* the coordinate of the first address that has one.
create_vroom_job(vs, addrs, coords) ==
    LET depot_coords == IF addrs # <<>> THEN coords[addrs[1].id] ELSE Sentinel
    IN  IF \E k \in 1 .. Len(addrs) :
               /\ HasTimeWindow(addrs[k])
               /\ ~(TimeParses(addrs[k].time_window_start)
                      /\ TimeParses(addrs[k].time_window_end))
        THEN [raised |-> TRUE, vehicles |-> <<>>, jobs |-> <<>>]
        ELSE [raised |-> FALSE,
              vehicles |-> [k \in 1 .. Len(vs) |->
                               VroomVehicle(vs[k], depot_coords)],
              jobs |-> [k \in 1 .. Len(addrs) |->
                           VroomJob(addrs[k], coords[addrs[k].id])]]

\* What the POST to VROOM can come to.  httpx.HTTPError covers the transport
\* errors, the timeout and the status raise_for_status rejects; a body that is
\* not JSON makes response.json() raise a ValueError, which is no HTTPError.
NoSolution == [error |-> "absent", routes |-> <<>>]

PostFailures == {"transport_error", "timeout", "http_status"}

\* A solve_optimization that posts the problem again after a failed POST.
AfterPostFailureRetry == "solving"

\* Where the call stands after a failed POST: the except clause returns, and
\* process_optimization_request goes on with what it returned.
AfterPostFailure == "solved"

\* solve_optimization on a failed POST: return {"error": str(e)}
SolveFailed(failure) == [error |-> failure, routes |-> <<>>]

\* A test that also sends a solution without routes to the fallback.
SolverErroredOrNoRoutes(solution) ==
    solution.error # "absent" \/ solution.routes = <<>>

\* if "error" in vroom_solution
SolverErrored(solution) == solution.error # "absent"

\* _seconds_to_time: "HH:MM" as the pair of its numbers.
seconds_to_time(seconds) == <<(seconds \div 60) \div 60, (seconds \div 60) % 60>>

\* The inner loop of _process_vroom_solution over enumerate(steps), from
\* Python index i on: the stops of the job steps whose address is known.
RECURSIVE DecodeSteps(_, _, _)
DecodeSteps(steps, i, addrs) ==
    IF i >= Len(steps) THEN <<>>
    ELSE LET step == steps[i + 1]
             known == SelectSeq(addrs, LAMBDA a : a.id = step.job)
         IN  (IF step.type = "job" /\ known # <<>>
              THEN <<[address_id |-> known[1].id,
                      sequence |-> i,
                      estimated_arrival |-> seconds_to_time(step.arrival),
                      distance_from_previous |-> step.distance \div 1000,
                      time_from_previous |-> step.duration \div 60]>>
              ELSE <<>>)
             \o DecodeSteps(steps, i + 1, addrs)

\* route_data["vehicle"], step["type"] and, on a job step, step["job"] raise
\* KeyError when the key is missing (held here as NoneValue or "absent").
RouteKeyError(route_data) ==
    \/ route_data.vehicle = NoneValue
    \/ \E k \in 1 .. Len(route_data.steps) :
           \/ route_data.steps[k].type = "absent"
           \/ route_data.steps[k].type = "job"
                  /\ route_data.steps[k].job = NoneValue

\* The outer loop of _process_vroom_solution from the k-th route on.
RECURSIVE DecodeRoutes(_, _, _, _)
DecodeRoutes(routes, k, vs, addrs) ==
    IF k > Len(routes) THEN <<>>
    ELSE LET route_data == routes[k]
             known == SelectSeq(vs, LAMBDA v : v.id = route_data.vehicle)
         IN  (IF known = <<>> THEN <<>>
              ELSE <<[vehicle_id |-> route_data.vehicle,
                      stops |-> DecodeSteps(route_data.steps, 0, addrs),
                      total_distance |-> route_data.distance \div 1000,
                      total_time |-> route_data.duration \div 60,
                      total_cost |-> (route_data.distance \div 1000)
                                         * known[1].cost_per_km]>>)
             \o DecodeRoutes(routes, k + 1, vs, addrs)

\* A decode that gives up on the first vehicle it does not know.
DecodeRaisesOnUnknown(solution, vs) ==
    \E k \in 1 .. Len(solution.routes) :
        \/ solution.routes[k].vehicle \notin Ids(vs)
        \/ RouteKeyError(solution.routes[k])

\* A route with an unknown vehicle is skipped before its steps are read.
DecodeRaises(solution, vs) ==
    \E k \in 1 .. Len(solution.routes) :
        \/ solution.routes[k].vehicle = NoneValue
        \/ /\ \E v \in Range(vs) : v.id = solution.routes[k].vehicle
           /\ RouteKeyError(solution.routes[k])

\* _process_vroom_solution: the outcome, or the KeyError it raises.
VroomOutcome(routes, coords) ==
    [routes |-> routes,
     total_distance |->
         SumSeq([k \in 1 .. Len(routes) |-> routes[k].total_distance]),
     total_time |->
         MaxSeq([k \in 1 .. Len(routes) |-> routes[k].total_time]),
     total_cost |->
         SumSeq([k \in 1 .. Len(routes) |-> routes[k].total_cost]),
     optimization_engine |-> "VROOM",
     geocoded_addresses |-> Cardinality(DOMAIN coords)]

process_vroom_solution(solution, vs, addrs, coords) ==
    IF DecodeRaises(solution, vs)
    THEN Raise("KeyError", 0, <<>>)
    ELSE [raised |-> FALSE, error |-> NoError,
          value |-> VroomOutcome(DecodeRoutes(solution.routes, 1, vs, addrs),
                                 coords),
          blocks |-> <<>>]

\* _fallback_optimization: optimize_routes for all the vehicles and all the
\* valid addresses, by a RouteOptimizationService of its own.
fallback_optimization(vs, addrs, lookup) ==
    optimize_routes([vehicle_ids |-> Ids(vs), address_ids |-> Ids(addrs)],
                    vs, addrs, lookup)

\* return {"error": "No addresses could be geocoded"}
NoGeocodedAddresses ==
    [raised |-> FALSE,
     error |-> [kind |-> "no_addresses_geocoded", vehicle_id |-> 0],
     value |-> HeuristicOutcome(<<>>),
     blocks |-> <<>>]

NoResponse ==
    [status |-> 0, optimization_engine |-> "", geocoded_addresses |-> 0,
     total_addresses |-> 0, routes |-> <<>>]

\* optimize_routes_advanced on what the pipeline returned or raised: the
\* returned error and every exception end in a 500.
endpoint_response(res, addrs) ==
    IF res.raised \/ res.error.kind # "none"
    THEN [status |-> 500, optimization_engine |-> "", geocoded_addresses |-> 0,
          total_addresses |-> 0, routes |-> <<>>]
    ELSE [status |-> 200,
          optimization_engine |->
              IF res.value.optimization_engine = "absent" THEN "ROS"
              ELSE res.value.optimization_engine,
          geocoded_addresses |->
              IF res.value.geocoded_addresses = NoneValue THEN Len(addrs)
              ELSE res.value.geocoded_addresses,
          total_addresses |-> Len(addrs),
          routes |-> res.value.routes]

\* ------------------------------------------------------------ input rows
\* A row of the addresses table (app/db/models.py, Address).
\* A time window bound is the list of the ':'-separated numbers of its
\* string: <<8, 0>> is "08:00", <<>> is None or "".
AddressRow(id, coord, demand, street, window) ==
    [id |-> id,
     latitude |-> coord[1],
     longitude |-> coord[2],
     delivery_weight |-> demand[1],
     delivery_volume |-> demand[2],
     service_time |-> DefaultServiceTime,
     priority |-> 1,
     street_address |-> street,
     city |-> "Colombo",
     state |-> "WP",
     postal_code |-> "00100",
     country |-> "LK",
     time_window_start |-> window[1],
     time_window_end |-> window[2]]

\* A row of the vehicles table (app/db/models.py, Vehicle).
VehicleRow(id, capacity) ==
    [id |-> id, capacity |-> capacity, cost_per_km |-> 2,
     start_location |-> "depot"]

\* Primary keys: the k-th address of a call has id 10 + k, the k-th vehicle
\* has id k.
AddressId(k) == 10 + k

Capacities == {2, 6}

Fleets(max) ==
    UNION {{[k \in 1 .. n |-> VehicleRow(k, caps[k])] :
               caps \in [1 .. n -> Capacities]} : n \in 1 .. max}

\* Coordinate and demand (weight, volume) of the rows an allocation is tried
\* on; the last one carries no coordinate and is looked up.
AllocProfiles ==
    {<<<<1, 2>>, <<1, 1>>>>,
     <<<<3, 1>>, <<2, 1>>>>,
     <<<<NoneValue, NoneValue>>, <<1, 2>>>>}

AllocAddressLists ==
    UNION {{[k \in 1 .. n |->
                AddressRow(AddressId(k), prof[k][1], prof[k][2], "street",
                           <<<<>>, <<>>>>)] :
               prof \in [1 .. n -> AllocProfiles]} : n \in 1 .. MaxStops}

\* The answers of RouteOptimizationService's geocoder in one call: for each
\* address, whether it is found; rows with a coordinate are not asked.
Lookups(addrs) ==
    {l \in [{addrs[k].id : k \in 1 .. Len(addrs)} -> BOOLEAN] :
        \A k \in 1 .. Len(addrs) :
            Truthy(addrs[k].latitude) /\ Truthy(addrs[k].longitude)
                => ~l[addrs[k].id]}

\* The requests tried: every row selected, or every row but the first.
Requests(vs, addrs) ==
    {[vehicle_ids |-> vi, address_ids |-> ai] :
        vi \in {Ids(vs), Ids(vs) \ {vs[1].id}},
        ai \in {Ids(addrs), Ids(addrs) \ {addrs[1].id}}}

\* Coordinate, demand, street and time window of the rows the pipeline is
\* tried on: with and without a coordinate, two of them at the same street,
\* one with a time window and one with a time window that does not parse.
CallProfiles ==
    {<<<<1, 2>>, <<1, 1>>, "s1", <<<<>>, <<>>>>>>,
     <<<<NoneValue, NoneValue>>, <<1, 1>>, "s1", <<<<8, 0>>, <<17, 0>>>>>>,
     <<<<NoneValue, NoneValue>>, <<1, 3>>, "s2", <<<<>>, <<>>>>>>,
     <<<<3, 1>>, <<2, 1>>, "s2", <<<<>>, <<>>>>>>,
     <<<<3, 1>>, <<2, 1>>, "s2", <<<<8>>, <<17, 0>>>>>>}

CallAddressLists ==
    UNION {{[k \in 1 .. n |->
                AddressRow(AddressId(k), prof[k][1], prof[k][2], prof[k][3],
                           prof[k][4])] :
               prof \in [1 .. n -> CallProfiles]} : n \in 1 .. MaxCallStops}

\* ---- what VROOM can answer with a 200 and a JSON body
\* An id no row of the call has.
UnknownIds == {99}

Step(type, job) ==
    [type |-> type, job |-> job, arrival |-> 30600, distance |-> 4000,
     duration |-> 600]

StepLists(addrs) ==
    LET refs == Ids(addrs) \cup UnknownIds
    IN  {<<>>}
        \cup {<<Step("start", NoneValue), Step("job", x),
                Step("end", NoneValue)>> : x \in refs}
        \cup {<<Step("job", x), Step("job", y)>> : x \in refs, y \in Ids(addrs)}
        \cup {<<Step("start", NoneValue), Step("absent", NoneValue)>>,
               <<Step("job", NoneValue)>>}

SolutionRoute(vehicle, steps) ==
    [vehicle |-> vehicle, distance |-> 12000, duration |-> 1800,
     steps |-> steps]

RoutePool(vs, addrs) ==
    {SolutionRoute(v, st) :
        v \in {vs[1].id, NoneValue} \cup UnknownIds, st \in StepLists(addrs)}

\* The bodies: an error message, an error message beside a route, no route,
\* one route, one route followed by the last vehicle's route to the last
\* address, or one route preceded by the route of a vehicle that is not the
\* call's.
VroomBodies(vs, addrs) ==
    LET last == SolutionRoute(vs[Len(vs)].id,
                              <<Step("start", NoneValue),
                                Step("job", addrs[Len(addrs)].id),
                                Step("end", NoneValue)>>)
    IN  {[error |-> "vroom_error", routes |-> <<>>],
         [error |-> "vroom_error", routes |-> <<last>>],
         [error |-> "absent", routes |-> <<>>]}
        \cup {[error |-> "absent", routes |-> <<r>>] : r \in RoutePool(vs, addrs)}
        \cup {[error |-> "absent", routes |-> <<r, last>>] :
                  r \in RoutePool(vs, addrs)}
        \cup {[error |-> "absent",
               routes |-> <<SolutionRoute(u, last.steps), r>>] :
                  u \in UnknownIds, r \in RoutePool(vs, addrs)}

NoResult ==
    [raised |-> FALSE, error |-> NoError,
     value |-> HeuristicOutcome(<<>>), blocks |-> <<>>]

GeoIdle == geo_calls = <<>>

LoopIdle ==
    /\ tasks = <<>>
    /\ on_loop = {}

PassIdle ==
    /\ passPc = "idle"
    /\ pass_matrix = <<>>
    /\ pass_tour = <<>>
    /\ best_tour = <<>>
    /\ passes = 0

\* ---- the tour solver as a state machine: optimization.py:130-131
TourIdle ==
    /\ tourPc = "idle"
    /\ distance_matrix = <<>>
    /\ nn_tour = <<>>
    /\ tour = <<>>
    /\ tour_distance = 0
    /\ tour_error = "none"

CallIdle ==
    /\ pc = "idle"
    /\ vehicles = <<>>
    /\ addresses = <<>>
    /\ request = [vehicle_ids |-> {}, address_ids |-> {}]
    /\ vehicle_blocks = <<>>
    /\ result = NoResult

PipeIdle ==
    /\ geo_idx = 0
    /\ coordinates = <<>>
    /\ cache = <<>>
    /\ lookup_log = <<>>
    /\ vroom_problem = NoProblem
    /\ vroom_solution = NoSolution
    /\ engine_calls = <<>>
    /\ response = NoResponse

TourInit ==
    /\ tourPc = "nearest_neighbor"
    /\ distance_matrix \in UNION {Matrices(n) : n \in 0 .. MaxNodes}
    /\ nn_tour = <<>>
    /\ tour = <<>>
    /\ tour_distance = 0
    /\ tour_error = "none"
    /\ CallIdle
    /\ PipeIdle
    /\ GeoIdle
    /\ PassIdle
    /\ LoopIdle

NearestNeighbor ==
    /\ tourPc = "nearest_neighbor"
    /\ LET r == nearest_neighbor_tsp(distance_matrix, 0)
       IN  /\ nn_tour' = r.tour
           /\ tour_error' = r.raised
           /\ tourPc' = IF r.raised = "none" THEN "two_opt" ELSE "raised"
    /\ UNCHANGED <<distance_matrix, tour, tour_distance>>
    /\ UNCHANGED callVars
    /\ UNCHANGED geoVars
    /\ UNCHANGED passVars
    /\ UNCHANGED loopVars
    /\ UNCHANGED pipeVars

TwoOpt ==
    /\ tourPc = "two_opt"
    /\ tour' = two_opt_improvement(nn_tour, distance_matrix)
    /\ tourPc' = "distance"
    /\ UNCHANGED <<distance_matrix, nn_tour, tour_distance, tour_error>>
    /\ UNCHANGED callVars
    /\ UNCHANGED geoVars
    /\ UNCHANGED passVars
    /\ UNCHANGED loopVars
    /\ UNCHANGED pipeVars

TourDistance ==
    /\ tourPc = "distance"
    /\ tour_distance' = calculate_tour_distance(tour, distance_matrix)
    /\ tourPc' = "done"
    /\ UNCHANGED <<distance_matrix, nn_tour, tour, tour_error>>
    /\ UNCHANGED callVars
    /\ UNCHANGED geoVars
    /\ UNCHANGED passVars
    /\ UNCHANGED loopVars
    /\ UNCHANGED pipeVars

TourNext == NearestNeighbor \/ TwoOpt \/ TourDistance

SpecTour == TourInit /\ [][TourNext]_vars

\* ---- one heuristic allocation: optimize_routes on a fleet and a stop list
AllocInit ==
    /\ TourIdle
    /\ pc = "allocating"
    /\ vehicles \in Fleets(MaxVehicles)
    /\ addresses \in AllocAddressLists
    /\ request \in Requests(vehicles, addresses)
    /\ vehicle_blocks = <<>>
    /\ result = NoResult
    /\ PipeIdle
    /\ GeoIdle
    /\ PassIdle
    /\ LoopIdle

Allocate ==
    /\ pc = "allocating"
    /\ \E lookup \in Lookups(addresses) :
           result' = optimize_routes(request, vehicles, addresses, lookup)
    /\ vehicle_blocks' = result'.blocks
    /\ pc' = "allocated"
    /\ UNCHANGED <<vehicles, addresses, request>>
    /\ UNCHANGED tourVars
    /\ UNCHANGED geoVars
    /\ UNCHANGED passVars
    /\ UNCHANGED loopVars
    /\ UNCHANGED pipeVars

AllocNext == Allocate

SpecAlloc == AllocInit /\ [][AllocNext]_vars

\* ---- one call of POST /optimize-advanced through the pipeline
Init ==
    /\ TourIdle
    /\ CallIdle
    /\ PipeIdle
    /\ GeoIdle
    /\ PassIdle
    /\ LoopIdle

\* optimize_routes_advanced, lines 29-46: the rows of the request, at least
\* one vehicle and one address, go to process_optimization_request.
StartCall ==
    /\ pc = "idle"
    /\ vehicles' \in Fleets(MaxCallVehicles)
    /\ addresses' \in CallAddressLists
    /\ request' = [vehicle_ids |-> Ids(vehicles'), address_ids |-> Ids(addresses')]
    /\ pc' = "geocoding"
    /\ UNCHANGED <<vehicle_blocks, result>>
    /\ UNCHANGED pipeVars
    /\ UNCHANGED tourVars
    /\ UNCHANGED geoVars
    /\ UNCHANGED passVars
    /\ UNCHANGED loopVars

\* One turn of the loop of batch_geocode_addresses; an exception that leaves
\* geocode_address leaves the call.
GeocodeAddress ==
    /\ pc = "geocoding"
    /\ geo_idx < Len(addresses)
    /\ \E outcome \in LookupOutcomes :
           LET address == addresses[geo_idx + 1]
               r == geocode_address(address, cache, outcome)
           IN  /\ lookup_log' = lookup_log \o r.asked
               /\ IF r.raised
                  THEN /\ result' = Raise("GeocoderServiceError", 0, <<>>)
                       /\ pc' = "raised"
                       /\ UNCHANGED <<coordinates, cache, geo_idx>>
                  ELSE /\ coordinates' = DictPut(coordinates, address.id,
                                                 r.coords)
                       /\ cache' = r.cache
                       /\ geo_idx' = geo_idx + 1
                       /\ UNCHANGED <<pc, result>>
    /\ UNCHANGED <<vroom_problem, vroom_solution, engine_calls, response>>
    /\ UNCHANGED <<vehicles, addresses, request, vehicle_blocks>>
    /\ UNCHANGED tourVars
    /\ UNCHANGED geoVars
    /\ UNCHANGED passVars
    /\ UNCHANGED loopVars

\* Lines 222-230: the failed results are filtered out; without any valid
\* address the call returns its error.
FilterGeocoded ==
    /\ pc = "geocoding"
    /\ geo_idx = Len(addresses)
    /\ IF NoValidAddresses(ValidAddresses(addresses, coordinates))
       THEN /\ result' = NoGeocodedAddresses
            /\ pc' = "returned"
       ELSE /\ result' = result
            /\ pc' = "encoding"
    /\ UNCHANGED <<vehicles, addresses, request, vehicle_blocks>>
    /\ UNCHANGED pipeVars
    /\ UNCHANGED tourVars
    /\ UNCHANGED geoVars
    /\ UNCHANGED passVars
    /\ UNCHANGED loopVars

\* Lines 234-236: await create_vroom_job(...); its exception is not caught.
CreateVroomJob ==
    /\ pc = "encoding"
    /\ LET problem == create_vroom_job(vehicles,
                                       ValidAddresses(addresses, coordinates),
                                       ValidCoordinates(coordinates))
       IN  /\ vroom_problem' = problem
           /\ IF problem.raised
              THEN /\ result' = Raise("ValueError", 0, <<>>)
                   /\ pc' = "raised"
              ELSE /\ result' = result
                   /\ pc' = "solving"
    /\ UNCHANGED <<vehicles, addresses, request, vehicle_blocks>>
    /\ UNCHANGED <<geo_idx, coordinates, cache, lookup_log, vroom_solution,
                   engine_calls, response>>
    /\ UNCHANGED tourVars
    /\ UNCHANGED geoVars
    /\ UNCHANGED passVars
    /\ UNCHANGED loopVars

\* Line 239, solve_optimization: the POST fails with an httpx.HTTPError.
SolveFails ==
    /\ pc = "solving"
    /\ \E failure \in PostFailures : vroom_solution' = SolveFailed(failure)
    /\ engine_calls' = Append(engine_calls, "vroom")
    /\ pc' = AfterPostFailure
    /\ UNCHANGED <<vehicles, addresses, request, vehicle_blocks, result>>
    /\ UNCHANGED <<geo_idx, coordinates, cache, lookup_log, vroom_problem,
                   response>>
    /\ UNCHANGED tourVars
    /\ UNCHANGED geoVars
    /\ UNCHANGED passVars
    /\ UNCHANGED loopVars

\* Line 239, solve_optimization: a 200 whose body is not JSON; response.json()
\* raises past the except clause.
SolveBadJson ==
    /\ pc = "solving"
    /\ engine_calls' = Append(engine_calls, "vroom")
    /\ result' = Raise("JSONDecodeError", 0, <<>>)
    /\ pc' = "raised"
    /\ UNCHANGED <<vehicles, addresses, request, vehicle_blocks>>
    /\ UNCHANGED <<geo_idx, coordinates, cache, lookup_log, vroom_problem,
                   vroom_solution, response>>
    /\ UNCHANGED tourVars
    /\ UNCHANGED geoVars
    /\ UNCHANGED passVars
    /\ UNCHANGED loopVars

\* Line 239, solve_optimization: a 200 with a JSON body, which refers to the
\* ids of the problem posted or to those of the call's rows.
SolveAnswers ==
    /\ pc = "solving"
    /\ vroom_solution' \in VroomBodies(vroom_problem.vehicles, vroom_problem.jobs)
                               \cup VroomBodies(vehicles, addresses)
    /\ engine_calls' = Append(engine_calls, "vroom")
    /\ pc' = "solved"
    /\ UNCHANGED <<vehicles, addresses, request, vehicle_blocks, result>>
    /\ UNCHANGED <<geo_idx, coordinates, cache, lookup_log, vroom_problem,
                   response>>
    /\ UNCHANGED tourVars
    /\ UNCHANGED geoVars
    /\ UNCHANGED passVars
    /\ UNCHANGED loopVars

\* Lines 241-244: the solution has an "error" key; the fallback's result, or
\* its exception, is the call's.
Fallback ==
    /\ pc = "solved"
    /\ SolverErrored(vroom_solution)
    /\ \E lookup \in Lookups(ValidAddresses(addresses, coordinates)) :
           result' = fallback_optimization(
                         vehicles, ValidAddresses(addresses, coordinates),
                         lookup)
    /\ vehicle_blocks' = result'.blocks
    /\ pc' = IF result'.raised THEN "raised" ELSE "returned"
    /\ engine_calls' = Append(engine_calls, "heuristic")
    /\ UNCHANGED <<vehicles, addresses, request>>
    /\ UNCHANGED <<geo_idx, coordinates, cache, lookup_log, vroom_problem,
                   vroom_solution, response>>
    /\ UNCHANGED tourVars
    /\ UNCHANGED geoVars
    /\ UNCHANGED passVars
    /\ UNCHANGED loopVars

\* Lines 246-248: the solution is decoded.
ProcessVroomSolution ==
    /\ pc = "solved"
    /\ ~SolverErrored(vroom_solution)
    /\ result' = process_vroom_solution(
                      vroom_solution, vehicles,
                      ValidAddresses(addresses, coordinates),
                      ValidCoordinates(coordinates))
    /\ pc' = IF result'.raised THEN "raised" ELSE "returned"
    /\ UNCHANGED <<vehicles, addresses, request, vehicle_blocks>>
    /\ UNCHANGED pipeVars
    /\ UNCHANGED tourVars
    /\ UNCHANGED geoVars
    /\ UNCHANGED passVars
    /\ UNCHANGED loopVars

\* optimize_routes_advanced, lines 48-70: the endpoint's answer.
Respond ==
    /\ pc \in {"returned", "raised"}
    /\ response' = endpoint_response(result, addresses)
    /\ pc' = "responded"
    /\ UNCHANGED <<vehicles, addresses, request, vehicle_blocks, result>>
    /\ UNCHANGED <<geo_idx, coordinates, cache, lookup_log, vroom_problem,
                   vroom_solution, engine_calls>>
    /\ UNCHANGED tourVars
    /\ UNCHANGED geoVars
    /\ UNCHANGED passVars
    /\ UNCHANGED loopVars

Next ==
    \/ StartCall
    \/ GeocodeAddress
    \/ FilterGeocoded
    \/ CreateVroomJob
    \/ SolveFails
    \/ SolveBadJson
    \/ SolveAnswers
    \/ Fallback
    \/ ProcessVroomSolution
    \/ Respond

Spec == Init /\ [][Next]_vars

\* ---- one GeocodingService and the geocode_address calls made on it
\* The rows resolved: with a coordinate, without one, and with a coordinate
\* on the equator or on the prime meridian; at one of two streets.
GeoAddresses ==
    {AddressRow(AddressId(1), coord, <<1, 1>>, street, <<<<>>, <<>>>>) :
        coord \in {<<1, 2>>, <<NoneValue, NoneValue>>, <<0, 3>>, <<3, 0>>},
        street \in {"s1", "s2"}}
        \cup {[AddressRow(AddressId(1), <<NoneValue, NoneValue>>, <<1, 1>>,
                          street, <<<<>>, <<>>>>) EXCEPT !.country = "US"] :
                  street \in {"s1", "s2"}}

\* coords = self.geocode_address(address), with what the geocoder answers
\* if it is asked.
Resolve ==
    /\ pc = "idle"
    /\ Len(geo_calls) < MaxGeoCalls
    /\ \E address \in GeoAddresses, outcome \in LookupOutcomes :
           LET r == geocode_address(address, cache, outcome)
           IN  /\ cache' = r.cache
               /\ lookup_log' = lookup_log \o r.asked
               /\ geo_calls' =
                      Append(geo_calls,
                             [address |-> address,
                              coords |-> r.coords,
                              asked |-> r.asked,
                              raised |-> r.raised,
                              cache_before |-> cache,
                              cache_after |-> r.cache])
    /\ UNCHANGED <<geo_idx, coordinates, vroom_problem, vroom_solution,
                   engine_calls, response>>
    /\ UNCHANGED <<pc, vehicles, addresses, request, vehicle_blocks, result>>
    /\ UNCHANGED <<tourPc, distance_matrix, nn_tour, tour, tour_distance,
                   tour_error>>
    /\ UNCHANGED passVars
    /\ UNCHANGED loopVars

GeoNext == Resolve

SpecGeo == Init /\ [][GeoNext]_vars

\* ---- two_opt_improvement called on its own, one pass of its while loop at
\* a time
\* The matrices over n nodes with non-negative entries and a zero diagonal,
\* symmetric or not.
GeneralPassMatrices(n) ==
    {[i \in 0 .. n - 1 |->
         [j \in 0 .. n - 1 |-> IF i = j THEN 0 ELSE d[<<i, j>>]]] :
        d \in [{pr \in (0 .. n - 1) \X (0 .. n - 1) : pr[1] # pr[2]}
                  -> PassDists]}

\* The symmetric ones among them.
SymmetricPassMatrices(n) == {MatrixOf(n, d) : d \in [NodePairs(n) -> PassDists]}

\* The matrices handed to the call: all of them below the largest size, the
\* symmetric ones at the largest size.
PassMatrices ==
    UNION {GeneralPassMatrices(n) : n \in 0 .. MaxPassNodes - 1}
        \cup SymmetricPassMatrices(MaxPassNodes)

\* The tours over n nodes that start at node 0, as the tours of
\* nearest_neighbor_tsp do: every order of the other nodes.
PassTours(n) ==
    {t \in [1 .. n -> 0 .. n - 1] : Range(t) = 0 .. n - 1 /\ (n > 0 => t[1] = 0)}

\* best_tour = tour[:]; improved = True
PassInit ==
    /\ passPc = "while"
    /\ pass_matrix \in PassMatrices
    /\ pass_tour \in PassTours(Shape(pass_matrix))
    /\ best_tour = pass_tour
    /\ passes = 0
    /\ TourIdle
    /\ CallIdle
    /\ PipeIdle
    /\ GeoIdle
    /\ LoopIdle

\* One iteration of "while improved": improved = False, the two for loops,
\* tour = best_tour[:]; the loop is left when the pass improved nothing, and
\* best_tour is returned.
Pass ==
    /\ passPc = "while"
    /\ LET r == TwoOptScan(pass_tour, best_tour, FALSE, 1, 2, pass_matrix)
       IN  /\ best_tour' = r.best_tour
           /\ pass_tour' = r.best_tour
           /\ passPc' = IF r.improved THEN "while" ELSE "returned"
    /\ passes' = passes + 1
    /\ UNCHANGED pass_matrix
    /\ UNCHANGED tourVars
    /\ UNCHANGED callVars
    /\ UNCHANGED pipeVars
    /\ UNCHANGED geoVars
    /\ UNCHANGED loopVars

PassNext == Pass

\* The call runs on: a pass that can be made is made.
SpecTwoOpt == PassInit /\ [][PassNext]_vars /\ WF_vars(Pass)

\* ---- several requests of POST /optimize-advanced or /geocode-batch served
\* by one process: their coroutines share the module-level ros_pipeline and
\* its GeocodingService, and run on one event loop
\* The addresses of the requests: without a coordinate at one street in two
\* countries, and with a coordinate.
TaskAddresses ==
    {AddressRow(AddressId(1), <<NoneValue, NoneValue>>, <<1, 1>>, "s1",
                <<<<>>, <<>>>>),
     [AddressRow(AddressId(2), <<NoneValue, NoneValue>>, <<1, 1>>, "s1",
                 <<<<>>, <<>>>>) EXCEPT !.country = "US"],
     AddressRow(AddressId(3), <<1, 2>>, <<1, 1>>, "s2", <<<<>>, <<>>>>)}

TaskAddressLists ==
    UNION {[1 .. n -> TaskAddresses] : n \in 1 .. MaxTaskStops}

\* A coroutine that has not reached batch_geocode_addresses yet.
NewTask(addrs) ==
    [pc |-> "arrived", addresses |-> addrs, results |-> <<>>,
     location |-> <<>>]

\* Coroutines that enter batch_geocode_addresses while another one is in it,
\* as the threads of a pool would.
LoopFreeThreaded(running) == TRUE

\* The event loop runs one coroutine at a time and changes coroutine at an
\* await only; the endpoints are "async def" and call
\* batch_geocode_addresses, which awaits nothing, directly: a coroutine
\* enters it when no other one is in it.
LoopFree(running) == running = {}

\* results[address.id] = coords and the next turn of the for loop; after the
\* last address the batch returns.
TaskWith(task, coords) ==
    [task EXCEPT
        !.results = Append(task.results, coords),
        !.location = <<>>,
        !.pc = IF Len(task.results) + 1 = Len(task.addresses)
               THEN "resolved" ELSE "check"]

\* The address the task's batch is at.
TaskAddress(task) == task.addresses[Len(task.results) + 1]

\* The coroutines still inside batch_geocode_addresses after one of them
\* has become next.
StillOnLoop(c, next) ==
    IF next.pc \in {"resolved", "raised"} THEN on_loop \ {c} ELSE on_loop

SharedInit ==
    /\ tasks \in [1 .. MaxTasks -> {NewTask(l) : l \in TaskAddressLists}]
    /\ on_loop = {}
    /\ TourIdle
    /\ CallIdle
    /\ PipeIdle
    /\ GeoIdle
    /\ PassIdle

\* The event loop runs the coroutine of a request up to the call of
\* batch_geocode_addresses.
EnterBatch(c) ==
    /\ tasks[c].pc = "arrived"
    /\ LoopFree(on_loop)
    /\ tasks' = [tasks EXCEPT ![c].pc = "check"]
    /\ on_loop' = on_loop \cup {c}
    /\ UNCHANGED tourVars
    /\ UNCHANGED callVars
    /\ UNCHANGED pipeVars
    /\ UNCHANGED geoVars
    /\ UNCHANGED passVars

\* geocode_address, lines 25-31: the coordinate of the row, or the cached
\* one; without either the geocoder is asked.
CheckCache(c) ==
    /\ c \in on_loop
    /\ tasks[c].pc = "check"
    /\ LET address == TaskAddress(tasks[c])
           next == IF Truthy(address.latitude) /\ Truthy(address.longitude)
                   THEN TaskWith(tasks[c],
                                 <<address.latitude, address.longitude>>)
                   ELSE IF CacheKey(address) \in DOMAIN cache
                   THEN TaskWith(tasks[c], cache[CacheKey(address)])
                   ELSE [tasks[c] EXCEPT !.pc = "lookup"]
       IN  /\ tasks' = [tasks EXCEPT ![c] = next]
           /\ on_loop' = StillOnLoop(c, next)
    /\ UNCHANGED tourVars
    /\ UNCHANGED callVars
    /\ UNCHANGED pipeVars
    /\ UNCHANGED geoVars
    /\ UNCHANGED passVars

\* geocode_address, lines 34-48: location = self.geocoder.geocode(...), a
\* blocking call; a failure returns (0.0, 0.0).
Lookup(c) ==
    /\ c \in on_loop
    /\ tasks[c].pc = "lookup"
    /\ \E outcome \in LookupOutcomes :
           LET address == TaskAddress(tasks[c])
               next == IF outcome = "found"
                       THEN [tasks[c] EXCEPT
                                !.pc = "store",
                                !.location = WorldCoord(FormatAddress(address))]
                       ELSE IF LookupRaises(outcome) /\ ~ExceptCatches(outcome)
                       THEN [tasks[c] EXCEPT !.pc = "raised"]
                       ELSE TaskWith(tasks[c], Sentinel)
           IN  /\ tasks' = [tasks EXCEPT ![c] = next]
               /\ on_loop' = StillOnLoop(c, next)
               /\ lookup_log' = Append(lookup_log, FormatAddress(address))
    /\ UNCHANGED <<geo_idx, coordinates, cache, vroom_problem, vroom_solution,
                   engine_calls, response>>
    /\ UNCHANGED tourVars
    /\ UNCHANGED callVars
    /\ UNCHANGED geoVars
    /\ UNCHANGED passVars

\* geocode_address, lines 39-41: self.cache[cache_key] = coords; return coords
Store(c) ==
    /\ c \in on_loop
    /\ tasks[c].pc = "store"
    /\ LET address == TaskAddress(tasks[c])
           next == TaskWith(tasks[c], tasks[c].location)
       IN  /\ cache' = DictPut(cache, CacheKey(address), tasks[c].location)
           /\ tasks' = [tasks EXCEPT ![c] = next]
           /\ on_loop' = StillOnLoop(c, next)
    /\ UNCHANGED <<geo_idx, coordinates, lookup_log, vroom_problem,
                   vroom_solution, engine_calls, response>>
    /\ UNCHANGED tourVars
    /\ UNCHANGED callVars
    /\ UNCHANGED geoVars
    /\ UNCHANGED passVars

SharedNext ==
    \E c \in 1 .. MaxTasks :
        EnterBatch(c) \/ CheckCache(c) \/ Lookup(c) \/ Store(c)

SpecShared == SharedInit /\ [][SharedNext]_vars

\* ===================================================================== claims
\* ---- helpers of the claims about the tour solver and the allocator
SelectedVehicles == SelectSeq(vehicles, LAMBDA v : v.id \in request.vehicle_ids)

SelectedAddresses ==
    SelectSeq(addresses, LAMBDA a : a.id \in request.address_ids)

Routes == result.value.routes

\* Places (route, position) at which a stop id occurs in the returned routes.
Occurrences(id) ==
    {kp \in UNION {{<<k, p>> : p \in 1 .. Len(Routes[k].stops)} :
                      k \in 1 .. Len(Routes)} :
        Routes[kp[1]].stops[kp[2]].address_id = id}

StopIds(route) == {route.stops[p].address_id : p \in 1 .. Len(route.stops)}

\* The partition the spec describes: sizes and starts of the k-th block of
\* n stops over v vehicles (k from 1).
BlockSize(k, n, v) == (n \div v) + (IF k <= n % v THEN 1 ELSE 0)

BlockStart(k, n, v) == (k - 1) * (n \div v) + Min(k - 1, n % v)

SpecBlock(k) ==
    LET n == Len(SelectedAddresses)
        v == Len(SelectedVehicles)
    IN  SubSeq(SelectedAddresses, BlockStart(k, n, v) + 1,
               BlockStart(k, n, v) + BlockSize(k, n, v))

Weight(block) == SumSeq([k \in 1 .. Len(block) |-> block[k].delivery_weight])

Volume(block) == SumSeq([k \in 1 .. Len(block) |-> block[k].delivery_volume])

Overloaded(k) ==
    \/ Weight(SpecBlock(k)) > SelectedVehicles[k].capacity
    \/ Volume(SpecBlock(k)) > SelectedVehicles[k].capacity

Returned == pc = "allocated" /\ ~result.raised

\* ---- helpers of the claims about a call through the pipeline
CallEnded == pc \in {"returned", "raised", "responded"}

\* Ids of the stops of the call whose resolution gave a coordinate, and of
\* those whose resolution failed.
ResolvedIds ==
    {id \in Ids(addresses) \cap DOMAIN coordinates : coordinates[id] # Sentinel}

FailedIds ==
    {id \in Ids(addresses) \cap DOMAIN coordinates : coordinates[id] = Sentinel}

AllResolutionsDone == DOMAIN coordinates = Ids(addresses) /\ addresses # <<>>

HeuristicCalled == "heuristic" \in Range(engine_calls)

\* The exceptions of the external solve stage: encoding, reading the body,
\* decoding the solution.
ExternalStageErrors == {"ValueError", "JSONDecodeError", "KeyError"}

\* C1 (as claimed): a call in which at least one stop resolved and the
\* external solver reported an error ends with a completed outcome tagged
\* with the engine "heuristic": it neither raises nor returns an error, and
\* the response carries that tag with status 200.
C1_FallbackDoneHeuristic ==
    CallEnded /\ ResolvedIds # {} /\ vroom_solution.error # "absent" =>
        /\ ~result.raised
        /\ result.error.kind = "none"
        /\ result.value.optimization_engine = "heuristic"
        /\ pc = "responded" =>
               /\ response.status = 200
               /\ response.optimization_engine = "heuristic"

\* C2: the outcome a call returns is the output of exactly one engine.  It is
\* either the decoded external solution, the heuristic not having been
\* invoked and the solver not having reported an error, or the outcome of
\* the fallback heuristic on the resolved stops, whatever routes the
\* solver's answer held; the heuristic is invoked at most once, and only
\* after the external solve was attempted and reported a failure.
C2_ExactlyOneEngine ==
    /\ HeuristicCalled =>
           /\ engine_calls = <<"vroom", "heuristic">>
           /\ vroom_solution.error # "absent"
    /\ CallEnded /\ ~result.raised /\ result.error.kind = "none" =>
           \/ /\ engine_calls = <<"vroom">>
              /\ vroom_solution.error = "absent"
              /\ result = process_vroom_solution(
                              vroom_solution, vehicles,
                              ValidAddresses(addresses, coordinates),
                              ValidCoordinates(coordinates))
              /\ result.value.optimization_engine = "VROOM"
           \/ /\ engine_calls = <<"vroom", "heuristic">>
              /\ vroom_solution.error # "absent"
              /\ \E lookup \in Lookups(ValidAddresses(addresses, coordinates)) :
                     result = fallback_optimization(
                                  vehicles,
                                  ValidAddresses(addresses, coordinates),
                                  lookup)
              /\ result.value.optimization_engine = "absent"
              /\ \A id \in ResolvedIds : Cardinality(Occurrences(id)) = 1

\* C2 witness: the solver answered with an error beside a route; the call
\* answered with the routes of the heuristic over two resolved stops, none
\* of them the solver's route.
C2_Witness ==
    /\ pc = "responded"
    /\ response.status = 200
    /\ engine_calls = <<"vroom", "heuristic">>
    /\ vroom_solution.error = "vroom_error"
    /\ vroom_solution.routes # <<>>
    /\ Cardinality(ResolvedIds) = 2
    /\ Routes # <<>>
    /\ Routes # DecodeRoutes(vroom_solution.routes, 1, vehicles,
                             ValidAddresses(addresses, coordinates))

\* C3 (as claimed): when the external solve stage fails, by an error while
\* encoding the problem, a failed POST, an error answer or an answer that
\* cannot be read or decoded, the call went on to the fallback heuristic and
\* the failure is not what the caller gets.
C3_ExternalFailureFallsBack ==
    CallEnded /\ ResolvedIds # {} =>
        /\ ~(result.raised /\ result.error.kind \in ExternalStageErrors)
        /\ vroom_problem.raised \/ vroom_solution.error # "absent"
               => HeuristicCalled

\* C4: once every stop of a call has been through resolution and none has a
\* coordinate, the call has ended with the no-geocodable-stops error: no
\* problem was encoded, neither engine was invoked, and the response is a
\* failure.
C4_NoStopsResolvedFails ==
    AllResolutionsDone /\ ResolvedIds = {} /\ pc # "geocoding" =>
        /\ pc \in {"returned", "responded"}
        /\ result = NoGeocodedAddresses
        /\ result.error.kind = "no_addresses_geocoded"
        /\ result.value.routes = <<>>
        /\ engine_calls = <<>>
        /\ vroom_problem = NoProblem
        /\ vroom_solution = NoSolution
        /\ pc = "responded" => response.status = 500 /\ response.routes = <<>>

\* C4 witness: a call with two stops, both of which the geocoder was asked
\* for and neither of which resolved, answered with a failure.
C4_Witness ==
    /\ pc = "responded"
    /\ Len(addresses) = 2
    /\ Cardinality(FailedIds) = 2
    /\ Len(lookup_log) = 2
    /\ result = NoGeocodedAddresses
    /\ response.status = 500

\* C5 (as claimed): a successful response to a call in which some stops
\* failed resolution and at least one resolved reports as geocoded count the
\* number of resolved stops, and none of its routes holds a failed stop.
C5_GeocodedCountExcludesFailures ==
    pc = "responded" /\ response.status = 200
        /\ FailedIds # {} /\ ResolvedIds # {} =>
        /\ response.geocoded_addresses = Cardinality(ResolvedIds)
        /\ response.geocoded_addresses = response.total_addresses
                                             - Cardinality(FailedIds)
        /\ \A k \in 1 .. Len(response.routes) :
               StopIds(response.routes[k]) \cap FailedIds = {}

\* C6: a heuristic allocation with at least one selected vehicle and one
\* selected stop that returns without error puts every selected stop in
\* exactly one returned route, once, and routes nothing else; with exactly
\* one selected vehicle the single route carries all the stops.
C6_EveryStopInExactlyOneRoute ==
    Returned =>
        /\ \A id \in Ids(SelectedAddresses) : Cardinality(Occurrences(id)) = 1
        /\ \A k \in 1 .. Len(Routes) : StopIds(Routes[k]) \subseteq Ids(SelectedAddresses)
        /\ Len(SelectedVehicles) = 1 =>
               /\ Len(Routes) = 1
               /\ Routes[1].vehicle_id = SelectedVehicles[1].id
               /\ StopIds(Routes[1]) = Ids(SelectedAddresses)
               /\ Len(Routes[1].stops) = Len(SelectedAddresses)

\* C6 witness: an allocation over two routes and at least four stops, one
\* route of which visits its stops in another order than the input's.
C6_Witness ==
    /\ Returned
    /\ Len(Routes) >= 2
    /\ Len(SelectedAddresses) >= 4
    /\ \E k \in 1 .. Len(Routes) :
           /\ Len(Routes[k].stops) >= 3
           /\ Routes[k].stops[1].address_id > Routes[k].stops[2].address_id

\* C7: the closed-tour distance of the tour two_opt_improvement returns for
\* the nearest-neighbour tour is at most that of the nearest-neighbour tour.
C7_MonotonicImprovement ==
    tourPc \in {"distance", "done"} =>
        calculate_tour_distance(tour, distance_matrix)
            <= calculate_tour_distance(nn_tour, distance_matrix)

\* C7 witness: a solved matrix on which 2-opt changed the tour and made it
\* strictly shorter.
C7_Witness ==
    /\ tourPc = "done"
    /\ tour # nn_tour
    /\ tour_distance < calculate_tour_distance(nn_tour, distance_matrix)

\* C8 (as claimed): on a matrix of at most one node, the empty matrix
\* included, the tour solver finishes without raising and the tour it returns
\* has distance zero.
C8_DegenerateTourNeverRaises ==
    Shape(distance_matrix) <= 1 /\ tourPc \in {"raised", "done"} =>
        /\ tour_error = "none"
        /\ tourPc = "done"
        /\ tour_distance = 0

\* C9: vehicle k is given the contiguous, order-preserving block of the
\* selected stops that follows vehicle k-1's block; the first N mod V blocks
\* hold floor(N/V)+1 stops and the others floor(N/V), so sizes differ by at
\* most one (2 vehicles and 5 stops: 3 and 2); an allocation that returns
\* served every vehicle, and its routes are those of the non-empty blocks.
C9_PartitionShape ==
    pc = "allocated" /\ SelectedVehicles # <<>> /\ SelectedAddresses # <<>> =>
        LET n == Len(SelectedAddresses)
            v == Len(SelectedVehicles)
        IN  /\ Len(vehicle_blocks) <= v
            /\ \A k \in 1 .. Len(vehicle_blocks) :
                   /\ vehicle_blocks[k] = SpecBlock(k)
                   /\ Len(vehicle_blocks[k]) = BlockSize(k, n, v)
            /\ \A k1, k2 \in 1 .. Len(vehicle_blocks) :
                   Len(vehicle_blocks[k1]) - Len(vehicle_blocks[k2]) <= 1
            /\ ~result.raised =>
                   /\ Len(vehicle_blocks) = v
                   /\ Len(Routes) = Cardinality({k \in 1 .. v : SpecBlock(k) # <<>>})
                   /\ \A k \in 1 .. Len(Routes) :
                          /\ Routes[k].vehicle_id = SelectedVehicles[k].id
                          /\ StopIds(Routes[k]) = Ids(SpecBlock(k))
            /\ v = 2 /\ n = 5 /\ ~result.raised =>
                   /\ Len(Routes[1].stops) = 3
                   /\ Len(Routes[2].stops) = 2

\* C9 witness: 2 vehicles and 5 stops allocated into routes of 3 and 2 stops.
C9_Witness ==
    /\ Returned
    /\ Len(SelectedVehicles) = 2
    /\ Len(SelectedAddresses) = 5
    /\ Len(vehicle_blocks) = 2
    /\ Len(vehicle_blocks[1]) = 3
    /\ Len(vehicle_blocks[2]) = 2

\* C10: if the summed weight or the summed volume of the stops assigned to
\* some vehicle exceeds its capacity, the allocation raises a capacity error
\* naming the first such vehicle and returns no route at all.
C10_CapacityExceededNoRoutes ==
    pc = "allocated" /\ SelectedVehicles # <<>> /\ SelectedAddresses # <<>> =>
        LET over == {k \in 1 .. Len(SelectedVehicles) : Overloaded(k)}
        IN  over # {} =>
                /\ result.raised
                /\ result.error.kind = "capacity_exceeded"
                /\ \E k \in over :
                       /\ \A k2 \in over : k <= k2
                       /\ result.error.vehicle_id = SelectedVehicles[k].id
                /\ Routes = <<>>

\* C10 witness: the second vehicle's block exceeds its capacity by volume
\* only, after the first vehicle's route was computed.
C10_Witness ==
    /\ pc = "allocated"
    /\ Len(SelectedVehicles) >= 2
    /\ Len(SelectedAddresses) >= 2
    /\ ~Overloaded(1)
    /\ Weight(SpecBlock(2)) <= SelectedVehicles[2].capacity
    /\ Volume(SpecBlock(2)) > SelectedVehicles[2].capacity
    /\ result.raised
    /\ result.error.vehicle_id = SelectedVehicles[2].id

\* C11: in every route a heuristic allocation returns, the stop at list
\* position p carries sequence number p: the numbers are 1, 2, ..., n.
C11_HeuristicSequenceFromOne ==
    Returned =>
        \A k \in 1 .. Len(Routes) :
            \A p \in 1 .. Len(Routes[k].stops) :
                Routes[k].stops[p].sequence = p

\* C11 witness: a returned route of three stops numbered 1, 2, 3 whose
\* visiting order is not the input order.
C11_Witness ==
    /\ Returned
    /\ \E k \in 1 .. Len(Routes) :
           /\ Len(Routes[k].stops) = 3
           /\ Routes[k].stops[3].sequence = 3
           /\ Routes[k].stops[1].address_id > Routes[k].stops[3].address_id

\* The outcome of the call is the decoded external solution.
DecodedReturned ==
    /\ pc \in {"returned", "responded"}
    /\ engine_calls = <<"vroom">>
    /\ ~result.raised
    /\ result.error.kind = "none"

\* C12 (as claimed): in every route decoded from the external solver's
\* answer, whatever its steps, the stop at list position p carries sequence
\* number p: the numbers are contiguous and start at 1.
C12_DecodedSequenceFromOne ==
    DecodedReturned =>
        \A k \in 1 .. Len(Routes) :
            \A p \in 1 .. Len(Routes[k].stops) :
                Routes[k].stops[p].sequence = p

\* ---- helpers of the claims about the legs of a heuristic route
AddressOf(id) == CHOOSE a \in Range(addresses) : a.id = id

\* Where the p-th stop of a route lies when the geocoder answers by lookup;
\* position 0 is the depot.
StopLocation(route, p, lookup) ==
    IF p = 0 THEN Sentinel
    ELSE opt_geocode_address(AddressOf(route.stops[p].address_id), lookup)

LegsOf(route) ==
    [p \in 1 .. Len(route.stops) |-> route.stops[p].distance_from_previous]

\* C13: for some answers of the geocoder, every non-empty route a heuristic
\* allocation returns has as total distance the sum of its stops'
\* distance_from_previous plus the distance from its last stop back to the
\* depot; each distance_from_previous is the distance between the locations
\* of the stop and of its predecessor (the depot for the first stop), and is
\* positive when the two locations differ.
C13_TotalDistanceIsSumOfLegs ==
    Returned =>
        \E lookup \in Lookups(addresses) :
            \A k \in 1 .. Len(Routes) :
                LET route == Routes[k]
                    n == Len(route.stops)
                IN  n > 0 =>
                        /\ route.total_distance =
                               SumSeq(LegsOf(route))
                                   + calculate_distance(
                                         StopLocation(route, n, lookup),
                                         Sentinel)
                        /\ \A p \in 1 .. n :
                               /\ route.stops[p].distance_from_previous =
                                      calculate_distance(
                                          StopLocation(route, p - 1, lookup),
                                          StopLocation(route, p, lookup))
                               /\ StopLocation(route, p - 1, lookup)
                                      # StopLocation(route, p, lookup)
                                      => route.stops[p].distance_from_previous > 0

\* C13 witness: one vehicle and three stops within its capacity give a
\* single route of three stops in order, every leg positive, whose total
\* distance exceeds the sum of the legs by a positive return leg.
C13_Witness ==
    /\ Returned
    /\ Len(SelectedVehicles) = 1
    /\ Len(SelectedAddresses) = 3
    /\ Len(Routes) = 1
    /\ Len(Routes[1].stops) = 3
    /\ \A p \in 1 .. 3 :
           /\ Routes[1].stops[p].sequence = p
           /\ Routes[1].stops[p].distance_from_previous > 0
    /\ Routes[1].total_distance > SumSeq(LegsOf(Routes[1]))

\* The address the batch resolves next.
NextAddress == addresses[geo_idx + 1]

HasCoordinate(address) ==
    Truthy(address.latitude) /\ Truthy(address.longitude)

\* C14: no failure of the lookup leaves geocode_address as an exception.  In
\* every state of a batch, resolving the next address under any failure
\* outcome (no result, timeout, service error) does not raise and, when the
\* lookup was asked, returns the sentinel (0.0, 0.0) and leaves the cache as
\* it was; no call ends with the geocoder's exception, and the batch goes on
\* to the remaining stops: once resolution is over every stop of the call
\* has its entry, the failed ones the sentinel.
C14_LookupFailureReturnsSentinel ==
    /\ result.error.kind # "GeocoderServiceError"
    /\ pc = "geocoding" /\ geo_idx < Len(addresses) =>
           \A outcome \in LookupOutcomes \ {"found"} :
               LET r == geocode_address(NextAddress, cache, outcome)
               IN  /\ ~r.raised
                   /\ r.asked # <<>> =>
                          r.coords = Sentinel /\ r.cache = cache
    /\ pc = "geocoding" =>
           DOMAIN coordinates = {addresses[k].id : k \in 1 .. geo_idx}
    /\ pc \notin {"idle", "geocoding"} => DOMAIN coordinates = Ids(addresses)

\* C14 witness: the lookup failed for the first stop of a call, which got
\* the sentinel, and the batch went on to look up and resolve the second;
\* the call was answered.
C14_Witness ==
    /\ pc = "responded"
    /\ response.status = 200
    /\ Len(addresses) = 2
    /\ ~HasCoordinate(addresses[1])
    /\ ~HasCoordinate(addresses[2])
    /\ Len(lookup_log) = 2
    /\ coordinates[addresses[1].id] = Sentinel
    /\ coordinates[addresses[2].id] # Sentinel

\* ---- helpers of the claims about geocode_address calls
\* The row carries a latitude and a longitude.
CarriesCoordinate(address) ==
    address.latitude # NoneValue /\ address.longitude # NoneValue

\* C15 (as claimed): on one GeocodingService, a call of geocode_address for
\* an address resolved by an earlier call returns the coordinate that call
\* returned and does not ask the geocoder.
C15_ResolveIsIdempotent ==
    \A i, j \in 1 .. Len(geo_calls) :
        i < j /\ geo_calls[i].address = geo_calls[j].address =>
            /\ geo_calls[j].coords = geo_calls[i].coords
            /\ geo_calls[j].asked = <<>>

\* C16 (as claimed): geocode_address on a row that carries a coordinate,
\* a latitude or longitude of 0 included, returns that coordinate, does not
\* ask the geocoder and leaves the cache as it was.
C16_CarriedCoordinateBypassesLookup ==
    \A i \in 1 .. Len(geo_calls) :
        CarriesCoordinate(geo_calls[i].address) =>
            /\ geo_calls[i].coords = <<geo_calls[i].address.latitude,
                                       geo_calls[i].address.longitude>>
            /\ geo_calls[i].asked = <<>>
            /\ geo_calls[i].cache_after = geo_calls[i].cache_before

\* ---- helpers of the claims about the decode of a solver's answer
\* The call got a JSON answer without an error key and decoded it, or raised
\* while decoding.
DecodeAttempted ==
    /\ CallEnded
    /\ engine_calls = <<"vroom">>
    /\ vroom_solution.error = "absent"
    /\ result.error.kind # "JSONDecodeError"

\* Every key the decode reads by subscript is there.
AllKeysPresent ==
    \A k \in 1 .. Len(vroom_solution.routes) :
        /\ vroom_solution.routes[k].vehicle # NoneValue
        /\ \A p \in 1 .. Len(vroom_solution.routes[k].steps) :
               /\ vroom_solution.routes[k].steps[p].type # "absent"
               /\ vroom_solution.routes[k].steps[p].type = "job" =>
                      vroom_solution.routes[k].steps[p].job # NoneValue

\* The answer's routes for a vehicle of the call, in the answer's order.
KnownVehicleRoutes ==
    SelectSeq(vroom_solution.routes, LAMBDA r : r.vehicle \in Ids(vehicles))

\* The stop ids of the job steps of a steps list that refer to a resolved
\* stop of the call, in the list's order.
KnownJobIds(steps) ==
    LET jobs == SelectSeq(steps,
                          LAMBDA st : st.type = "job" /\ st.job \in ResolvedIds)
    IN  [p \in 1 .. Len(jobs) |-> jobs[p].job]

StopIdList(route) == [p \in 1 .. Len(route.stops) |-> route.stops[p].address_id]

\* C17: the decode of an answer in which no key is missing never raises,
\* whatever identifiers it refers to: the result has one route for each route
\* of the answer whose vehicle is one of the call's, in the answer's order,
\* and that route's stops are the job steps that refer to a resolved stop of
\* the call, in the steps' order; routes of unknown vehicles and job steps of
\* unknown stops are left out, and nothing else is.
C17_DefensiveDecoding ==
    DecodeAttempted /\ AllKeysPresent =>
        /\ ~result.raised
        /\ Len(Routes) = Len(KnownVehicleRoutes)
        /\ \A k \in 1 .. Len(Routes) :
               /\ Routes[k].vehicle_id = KnownVehicleRoutes[k].vehicle
               /\ StopIdList(Routes[k]) = KnownJobIds(KnownVehicleRoutes[k].steps)

\* C17 witness: the answer's first route is for a vehicle the call does not
\* have and its second route, for a vehicle of the call, has a job step for
\* an unknown stop followed by one for a known stop: the call returned one
\* route with that one stop.
C17_Witness ==
    /\ DecodedReturned
    /\ Len(vroom_solution.routes) = 2
    /\ vroom_solution.routes[1].vehicle \in UnknownIds
    /\ vroom_solution.routes[2].vehicle \in Ids(vehicles)
    /\ Len(vroom_solution.routes[2].steps) = 2
    /\ vroom_solution.routes[2].steps[1].job \in UnknownIds
    /\ Len(Routes) = 1
    /\ StopIdList(Routes[1]) = <<vroom_solution.routes[2].steps[2].job>>

\* The ids of all the job steps of a steps list, in the list's order.
JobStepIds(steps) ==
    LET jobs == SelectSeq(steps, LAMBDA st : st.type = "job")
    IN  [p \in 1 .. Len(jobs) |-> jobs[p].job]

\* The answer matches the problem that was posted: no key is missing, every
\* route is for a vehicle id of the problem and every job step for a job id
\* of the problem.
AnswerMatchesProblem ==
    /\ AllKeysPresent
    /\ \A k \in 1 .. Len(vroom_solution.routes) :
           /\ vroom_solution.routes[k].vehicle \in Ids(vroom_problem.vehicles)
           /\ Range(JobStepIds(vroom_solution.routes[k].steps))
                  \subseteq Ids(vroom_problem.jobs)

\* C18: the problem create_vroom_job encodes names the call's vehicles and
\* resolved stops by their ids, and the decode of an answer that matches the
\* problem gives, route for route, the answer's vehicle id and exactly the
\* stop ids of the answer's job steps, in the order of the steps list.
C18_EncodeDecodeRoundTrip ==
    DecodeAttempted /\ ~vroom_problem.raised =>
        /\ Ids(vroom_problem.vehicles) = Ids(vehicles)
        /\ Ids(vroom_problem.jobs) = ResolvedIds
        /\ AnswerMatchesProblem =>
               /\ ~result.raised
               /\ Len(Routes) = Len(vroom_solution.routes)
               /\ \A k \in 1 .. Len(Routes) :
                      /\ Routes[k].vehicle_id = vroom_solution.routes[k].vehicle
                      /\ StopIdList(Routes[k])
                             = JobStepIds(vroom_solution.routes[k].steps)

\* C18 witness: an answer of two routes that matches the problem, the first
\* with two job steps in another order than the stops were given in; the
\* call returned the stops of both routes in the answer's order.
C18_Witness ==
    /\ DecodedReturned
    /\ AnswerMatchesProblem
    /\ Len(vroom_solution.routes) = 2
    /\ Len(Routes) = 2
    /\ Len(vroom_solution.routes[1].steps) = 2
    /\ vroom_solution.routes[1].steps[1].job > vroom_solution.routes[1].steps[2].job
    /\ StopIdList(Routes[1]) = <<vroom_solution.routes[1].steps[1].job,
                                 vroom_solution.routes[1].steps[2].job>>
    /\ Len(Routes[2].stops) = 1

\* ---- helpers of the claim about the requests to the external solver
SolverRequests == {k \in DOMAIN engine_calls : engine_calls[k] = "vroom"}

\* How far a call has come: every step of a call moves it on.
CallRank ==
    CASE pc = "idle" -> 0
      [] pc = "geocoding" -> 1 + geo_idx
      [] pc = "encoding" -> Len(addresses) + 2
      [] pc = "solving" -> Len(addresses) + 3
      [] pc = "solved" -> Len(addresses) + 4
      [] pc \in {"returned", "raised"} -> Len(addresses) + 5
      [] pc = "responded" -> Len(addresses) + 6

\* With the solver's answer in hand the call has its next step: the
\* fallback, which returns or raises for some answer of its geocoder, or the
\* decode, which returns or raises.
FallbackOrDecodeDefined ==
    IF SolverErrored(vroom_solution)
    THEN \E lookup \in Lookups(ValidAddresses(addresses, coordinates)) :
             fallback_optimization(vehicles,
                                   ValidAddresses(addresses, coordinates),
                                   lookup).raised \in BOOLEAN
    ELSE process_vroom_solution(vroom_solution, vehicles,
                                ValidAddresses(addresses, coordinates),
                                ValidCoordinates(coordinates)).raised
             \in BOOLEAN

\* C19: in one call at most one request is sent to the external solver; once
\* the request has failed (timeout, transport error, rejected status) or was
\* answered with an error, no further request is sent and the next step of
\* the call is the fallback heuristic; and the call cannot block: until it is
\* answered, with an outcome or an error, it always has a step to take, and
\* every step moves it on towards the answer, which is at a bounded distance.
C19_SingleRequestNoRetryCompletes ==
    /\ [](Cardinality(SolverRequests) <= 1)
    /\ [][vroom_solution.error # "absent" =>
              engine_calls' \in {engine_calls, Append(engine_calls, "heuristic")}]_vars
    /\ [][pc = "solved" /\ vroom_solution.error # "absent" =>
              HeuristicCalled' /\ pc' \in {"returned", "raised"}]_vars
    /\ [](pc \in {"geocoding", "encoding", "solving", "returned", "raised"} =>
              ENABLED (GeocodeAddress \/ FilterGeocoded \/ CreateVroomJob
                           \/ SolveFails \/ SolveBadJson \/ SolveAnswers
                           \/ Respond))
    /\ [](pc = "solved" => FallbackOrDecodeDefined)
    /\ [][CallRank' > CallRank /\ CallRank' <= MaxCallStops + 6]_vars

\* C19 witness: the one request of a call timed out; the heuristic ran and
\* the call was answered with its routes.
C19_Witness ==
    /\ pc = "responded"
    /\ vroom_solution.error = "timeout"
    /\ Cardinality(SolverRequests) = 1
    /\ engine_calls = <<"vroom", "heuristic">>
    /\ response.status = 200
    /\ response.routes # <<>>

\* ---- helpers of the claim about the tours
\* t visits each of the node indices 0 .. n-1 exactly once, the start node 0
\* first.
PermutationFromDepot(t, n) ==
    /\ Len(t) = n
    /\ {t[p] : p \in 1 .. Len(t)} = 0 .. n - 1
    /\ t[1] = 0

\* C20: on a distance matrix of n >= 1 nodes the solver does not raise, and
\* the tour nearest_neighbor_tsp returns and the tour two_opt_improvement
\* returns for it are both permutations of 0 .. n-1 with node 0 at
\* position 0.
C20_ToursArePermutations ==
    Shape(distance_matrix) >= 1 =>
        /\ tourPc # "raised"
        /\ tourPc \in {"two_opt", "distance", "done"} =>
               PermutationFromDepot(nn_tour, Shape(distance_matrix))
        /\ tourPc \in {"distance", "done"} =>
               PermutationFromDepot(tour, Shape(distance_matrix))

\* C20 witness: a matrix of four nodes on which 2-opt returned another tour
\* than the nearest-neighbour one, both of them permutations from the depot.
C20_Witness ==
    /\ tourPc = "done"
    /\ Shape(distance_matrix) = 4
    /\ tour # nn_tour
    /\ PermutationFromDepot(nn_tour, 4)
    /\ PermutationFromDepot(tour, 4)

\* ---- helpers of the claim about the nearest-neighbour construction
\* The nodes not yet in the tour when its position p was appended.
UnvisitedBefore(t, p, n) == (0 .. n - 1) \ {t[q] : q \in 1 .. p - 1}

\* C21: every node nearest_neighbor_tsp appended was, among the nodes then
\* unvisited, one at the smallest distance from the node before it, and the
\* one of lowest index among those at that distance.
C21_NearestNeighbourLowestIndexTie ==
    tourPc \in {"two_opt", "distance", "done"} =>
        \A p \in 2 .. Len(nn_tour) :
            \A y \in UnvisitedBefore(nn_tour, p, Shape(distance_matrix)) :
                LET d == distance_matrix[nn_tour[p - 1]]
                IN  \/ d[nn_tour[p]] < d[y]
                    \/ d[nn_tour[p]] = d[y] /\ nn_tour[p] <= y

\* C21 witness: a construction over four nodes in which one step had two
\* unvisited nodes at the same smallest distance and another step appended a
\* node that was not the lowest unvisited index.
C21_Witness ==
    /\ tourPc = "done"
    /\ Len(nn_tour) = 4
    /\ \E p \in 2 .. 4 :
           \E y \in UnvisitedBefore(nn_tour, p, 4) :
               /\ y > nn_tour[p]
               /\ distance_matrix[nn_tour[p - 1]][y]
                      = distance_matrix[nn_tour[p - 1]][nn_tour[p]]
    /\ \E p \in 2 .. 4 :
           \E y \in UnvisitedBefore(nn_tour, p, 4) : y < nn_tour[p]

\* ---- helpers of the claim about the local optimum
\* The reversals new_tour[i:j] = tour[i:j][::-1] of a tour that keep position
\* 0: Python positions i .. j-1 with 1 <= i and j - i > 1; j = len(t) is the
\* segment that ends at the tour's last position.
SegmentReversals(t) ==
    {ReverseSlice(t, ij[1], ij[2]) :
        ij \in {pr \in (1 .. Len(t)) \X (1 .. Len(t)) : pr[2] - pr[1] > 1}}

\* C22: the tour two_opt_improvement returned has no segment reversal, the
\* segments that end at its last position included, of strictly smaller
\* closed-tour distance.
C22_TwoOptLocalOptimum ==
    tourPc \in {"distance", "done"} =>
        \A new_tour \in SegmentReversals(tour) :
            calculate_tour_distance(new_tour, distance_matrix)
                >= calculate_tour_distance(tour, distance_matrix)

\* ---- the claim about the termination of the 2-opt improvement
\* C23: two_opt_improvement returns on every matrix with non-negative entries
\* and every input tour: a pass after which the loop goes on has strictly
\* decreased the closed distance of best_tour, which is never negative, a
\* pass can always be made while the loop is on, and the call ends by
\* returning.
C23_TwoOptTerminates ==
    /\ [][passPc = "while" /\ passPc' = "while" =>
              calculate_tour_distance(best_tour', pass_matrix)
                  < calculate_tour_distance(best_tour, pass_matrix)]_vars
    /\ [](passPc = "while" /\ best_tour # <<>> =>
              calculate_tour_distance(best_tour, pass_matrix) >= 0)
    /\ [](passPc = "while" => ENABLED Pass)
    /\ <>(passPc = "returned")

\* C23 witness: a call that returned after two improving passes and the pass
\* that improved nothing.
C23_Witness ==
    /\ passPc = "returned"
    /\ passes >= 3
    /\ Shape(pass_matrix) = 5

\* ---- helpers of the claims about the encoded problem
\* create_vroom_job has returned the problem of this call.
ProblemEncoded == pc \in {"solving", "solved"} /\ ~vroom_problem.raised

\* A (latitude, longitude) coordinate in the external format's
\* [longitude, latitude] order.
LonLat(coords) == <<coords[2], coords[1]>>

\* The depot create_vroom_job gives every vehicle: the coordinate, as
\* (latitude, longitude), of the first resolved stop.
DepotOfCall ==
    coordinates[ValidAddresses(addresses, coordinates)[1].id]

\* C24: the encoded problem has one vehicle entry per vehicle of the call and
\* one job entry per resolved stop, ids kept, and each of its coordinates, the
\* start and end of every vehicle as well as the location of every job, is in
\* [longitude, latitude] order.
C24_EncodedProblemLonLat ==
    ProblemEncoded =>
        LET valid_addresses == ValidAddresses(addresses, coordinates)
        IN  /\ Len(vroom_problem.vehicles) = Len(vehicles)
            /\ \A k \in 1 .. Len(vehicles) :
                   /\ vroom_problem.vehicles[k].id = vehicles[k].id
                   /\ vroom_problem.vehicles[k].start = LonLat(DepotOfCall)
                   /\ vroom_problem.vehicles[k].end = LonLat(DepotOfCall)
            /\ Len(vroom_problem.jobs) = Len(valid_addresses)
            /\ \A k \in 1 .. Len(valid_addresses) :
                   /\ vroom_problem.jobs[k].id = valid_addresses[k].id
                   /\ vroom_problem.jobs[k].location
                          = LonLat(coordinates[valid_addresses[k].id])

\* The time windows of the encoded jobs whose address has the window
\* 08:00-17:00.
DayLongJobWindows ==
    {vroom_problem.jobs[k].time_windows[1] :
        k \in {x \in 1 .. Len(vroom_problem.jobs) :
                  LET address == ValidAddresses(addresses, coordinates)[x]
                  IN  /\ address.time_window_start = <<8, 0>>
                      /\ address.time_window_end = <<17, 0>>}}

\* C25: in the encoded problem the working window of every vehicle and the
\* time window of every job are in the same unit, seconds since midnight: a
\* job window of 08:00-17:00 is encoded as 28800-61200 and lies inside the
\* working window of every vehicle.
C25_WindowsInSeconds ==
    ProblemEncoded =>
        \A k \in 1 .. Len(vroom_problem.vehicles) :
            \A window \in DayLongJobWindows :
                LET working == vroom_problem.vehicles[k].time_window
                IN  /\ window = <<8 * 3600, 17 * 3600>>
                    /\ working[1] <= window[1]
                    /\ window[2] <= working[2]

\* ---- helpers of the claim about the stops the fallback routes
\* The fallback returned routes.
FallbackReturned == pc = "returned" /\ HeuristicCalled /\ ~result.raised

\* The formatted addresses the heuristic's own geocoder is asked for a stop
\* list: one for every address that carries no coordinate.
HeuristicLookups(addrs) ==
    {OptFullAddress(addrs[k]) :
        k \in {x \in 1 .. Len(addrs) :
                  ~(Truthy(addrs[x].latitude) /\ Truthy(addrs[x].longitude))}}

\* Where the RESOLVING stage put the p-th stop of a route; position 0 is the
\* heuristic's depot.
ResolvedLocation(route, p) ==
    IF p = 0 THEN Sentinel ELSE coordinates[route.stops[p].address_id]

\* C26: the fallback routes every stop at the coordinate the resolving stage
\* obtained for it and asks no lookup again: each leg of each of its routes
\* is the distance between the resolved locations of the stop and of its
\* predecessor, and no stop lies at the sentinel coordinate.
C26_FallbackUsesResolvedCoordinates ==
    FallbackReturned =>
        /\ HeuristicLookups(ValidAddresses(addresses, coordinates)) = {}
        /\ \A k \in 1 .. Len(Routes) :
               \A p \in 1 .. Len(Routes[k].stops) :
                   /\ ResolvedLocation(Routes[k], p) # Sentinel
                   /\ Routes[k].stops[p].distance_from_previous =
                          calculate_distance(ResolvedLocation(Routes[k], p - 1),
                                             ResolvedLocation(Routes[k], p))

\* ---- the claim about the addresses that share a cached coordinate
\* C28: on one GeocodingService, a coordinate other than the sentinel
\* returned for an address without preset coordinates is the one a lookup of
\* that address's full formatted address (street, city, state, postal code,
\* country) gave, in this call or in an earlier one: addresses that differ
\* in a component, were it only the country, share no cached coordinate.
C28_CachedCoordinateOfSameFullAddress ==
    \A i \in 1 .. Len(geo_calls) :
        LET call == geo_calls[i]
        IN  ~CarriesCoordinate(call.address) /\ call.coords # Sentinel =>
                /\ call.coords = WorldCoord(FormatAddress(call.address))
                /\ \E j \in 1 .. i :
                       geo_calls[j].asked = <<FormatAddress(call.address)>>

\* ---- helpers of the claim about the shared cache
\* The coroutines between the cache test of geocode_address and its insert.
CacheWriters == {c \in DOMAIN tasks : tasks[c].pc \in {"check", "lookup", "store"}}

\* C27: with several requests resolving addresses against the one
\* GeocodingService of the process, at most one of them is between the cache
\* test and the insert at any time, an entry of the cache is never removed
\* nor replaced by another coordinate, and every entry a request can read is
\* a whole coordinate that a lookup produced.
C27_CacheInsertsSerialized ==
    /\ [](Cardinality(CacheWriters) <= 1)
    /\ [][\A k \in DOMAIN cache :
              k \in DOMAIN cache' /\ cache'[k] = cache[k]]_vars
    /\ [](\A k \in DOMAIN cache :
              /\ Len(cache[k]) = 2
              /\ \E f \in Range(lookup_log) : cache[k] = WorldCoord(f))

\* C27 witness: two requests for the same street in two countries have both
\* resolved; only the first asked the geocoder and inserted, the second read
\* the entry.
C27_Witness ==
    /\ \A c \in DOMAIN tasks : tasks[c].pc = "resolved"
    /\ Len(tasks) = 2
    /\ tasks[1].addresses[1].country # tasks[2].addresses[1].country
    /\ Len(lookup_log) = 1
    /\ Cardinality(DOMAIN cache) = 1
    /\ tasks[1].results = tasks[2].results

\* ---- helpers of the claim about the arrival times
\* The clock time "HH:MM" of a stop, in minutes since midnight.
ArrivalMinutes(stop) == stop.estimated_arrival[1] * 60 + stop.estimated_arrival[2]

\* Travel time of the legs 1 .. p of a route, and service time of its stops
\* 1 .. p.
TravelUpTo(route, p) ==
    SumSeq([q \in 1 .. p |-> route.stops[q].time_from_previous])

ServiceUpTo(route, p) ==
    SumSeq([q \in 1 .. p |-> AddressOf(route.stops[q].address_id).service_time])

\* C29: in every route of a heuristic allocation the estimated arrival of
\* the k-th stop is 08:00 plus the travel times of the legs 1 .. k plus the
\* service times of the stops 1 .. k-1, the stop's own service time not
\* included, and the arrivals do not decrease along the route.
C29_ArrivalExcludesOwnService ==
    Returned =>
        \A k \in 1 .. Len(Routes) :
            \A p \in 1 .. Len(Routes[k].stops) :
                /\ ArrivalMinutes(Routes[k].stops[p]) =
                       DayStartMinutes + TravelUpTo(Routes[k], p)
                           + ServiceUpTo(Routes[k], p - 1)
                /\ p > 1 => ArrivalMinutes(Routes[k].stops[p - 1])
                                <= ArrivalMinutes(Routes[k].stops[p])

\* ---- helpers of the claim about the depot of a route
\* Where the geocoder places a vehicle's start_location, its depot.
DepotLocation(vehicle) == WorldCoord(<<vehicle.start_location>>)

VehicleOf(id) == CHOOSE v \in Range(vehicles) : v.id = id

\* C30: for some answers of the geocoder, every non-empty route of a
\* heuristic allocation starts and ends at its vehicle's own depot: the first
\* leg is the distance from the depot of the vehicle to the first stop, and
\* the total distance exceeds the sum of the legs by the distance from the
\* last stop back to that depot.
C30_RouteFromVehicleDepot ==
    Returned =>
        \E lookup \in Lookups(addresses) :
            \A k \in 1 .. Len(Routes) :
                LET route == Routes[k]
                    n == Len(route.stops)
                    depot == DepotLocation(VehicleOf(route.vehicle_id))
                IN  n > 0 =>
                        /\ route.stops[1].distance_from_previous =
                               calculate_distance(
                                   depot, StopLocation(route, 1, lookup))
                        /\ route.total_distance - SumSeq(LegsOf(route)) =
                               calculate_distance(
                                   StopLocation(route, n, lookup), depot)

====
